---- MODULE Spec2Model ----
(***************************************************************************)
(* Rig-mathematics core of the sprite animator: the rig store (bones,      *)
(* reparenting, history), the two-bone IK solver, the transform resolver   *)
(* and the auto-rig mask analyzer, modelled as state machines.             *)
(*                                                                         *)
(* Numbers.  Bone coordinates, lengths and scales are integers (pixels);   *)
(* world coordinates and distances are fixed-point in 1/Scale pixel        *)
(* (the IK solver's epsilon 0.001 is one unit); angles are integer         *)
(* degrees and the trigonometric functions are a table in 1/Scale.  A      *)
(* JavaScript NaN is the value NaN, propagated by every arithmetic         *)
(* operator that can meet it.                                              *)
(***************************************************************************)
EXTENDS Integers, Sequences, FiniteSets, TLC

VARIABLES
    \* ---- rig store (zustand state wrapped by withHistory) ----
    skeletons,               \* Skeleton[]
    selectedSkeletonId,
    selectedBoneId,
    selectedIKConstraintId,
    selectedRigAnimationId,
    currentTime,
    canUndo,
    canRedo,
    pastStates,              \* closure state of withHistory
    futureStates,
    historyLimit,            \* const limit = options?.limit ?? MAX_HISTORY
    nextId,                  \* ids handed out by generateId so far + 1
    steps,                   \* number of store calls made
    lastOp                   \* the store call that produced this state

storeVars == <<skeletons, selectedSkeletonId, selectedBoneId, selectedIKConstraintId,
               selectedRigAnimationId, currentTime, canUndo, canRedo,
               pastStates, futureStates, historyLimit, nextId, steps, lastOp>>

----------------------------------------------------------------------------
(* Bounds of the model *)

MaxIds == 4        \* ids generateId may hand out
MaxSteps == 5      \* store calls in one behaviour

(* Program constants *)

Null == 0          \* null / undefined (ids are 1, 2, ...)
MAX_HISTORY == 50

----------------------------------------------------------------------------
(* Generic helpers over bone lists *)

Range(s) == {s[i] : i \in 1..Len(s)}

\* bones.find(b => b.id === id): index of the first match, 0 when none
BoneIndex(bones, id) ==
    IF \E i \in 1..Len(bones) : bones[i].id = id
    THEN CHOOSE i \in 1..Len(bones) :
            /\ bones[i].id = id
            /\ \A j \in 1..(i - 1) : bones[j].id # id
    ELSE 0

\* skeletons.find(s => s.id === id)
SkeletonIndex(skels, id) ==
    IF \E i \in 1..Len(skels) : skels[i].id = id
    THEN CHOOSE i \in 1..Len(skels) :
            /\ skels[i].id = id
            /\ \A j \in 1..(i - 1) : skels[j].id # id
    ELSE 0

BoneIds(bones) == {bones[i].id : i \in 1..Len(bones)}

\* { ...b, ...updates }
Merge(b, updates) ==
    [f \in DOMAIN b \cup DOMAIN updates |-> IF f \in DOMAIN updates THEN updates[f] ELSE b[f]]

\* skeletons.map(s => s.id !== skeletonId ? s : { ...s, bones: newBones(s) })
MapSkeletonBones(skels, skeletonId, NewBones(_)) ==
    [i \in 1..Len(skels) |->
        IF skels[i].id # skeletonId THEN skels[i]
        ELSE [skels[i] EXCEPT !.bones = NewBones(skels[i])]]

----------------------------------------------------------------------------
(* withHistory: the tracked set, undo and redo *)

\* const { undo, redo, canUndo, canRedo, ...snapshot } = get()
Snapshot ==
    [skeletons |-> skeletons,
     selectedSkeletonId |-> selectedSkeletonId,
     selectedBoneId |-> selectedBoneId,
     selectedIKConstraintId |-> selectedIKConstraintId,
     selectedRigAnimationId |-> selectedRigAnimationId,
     currentTime |-> currentTime]

\* a mutation: the push without the trim
PushUnlimited(stack, snap, limit) == Append(stack, snap)

\* pastStates.push(snapshot); if (pastStates.length > limit) pastStates.shift()
PushLimited(stack, snap, limit) ==
    LET pushed == Append(stack, snap)
    IN IF Len(pushed) > limit THEN Tail(pushed) ELSE pushed

\* (set)(data): the raw zustand set of the six data fields
SetData(data) ==
    /\ skeletons' = data.skeletons
    /\ selectedSkeletonId' = data.selectedSkeletonId
    /\ selectedBoneId' = data.selectedBoneId
    /\ selectedIKConstraintId' = data.selectedIKConstraintId
    /\ selectedRigAnimationId' = data.selectedRigAnimationId
    /\ currentTime' = data.currentTime

\* a mutation of trackedSet: the redo stack is left as it is
trackedSetKeepsFuture(data) ==
    /\ pastStates' = PushLimited(pastStates, Snapshot, historyLimit)
    /\ futureStates' = futureStates
    /\ SetData(data)
    /\ canUndo' = (Len(pastStates') > 0)
    /\ canRedo' = (Len(futureStates') > 0)

\* trackedSet(...) outside undo/redo: snapshot, set, then the canUndo/canRedo flags
trackedSet(data) ==
    /\ pastStates' = PushLimited(pastStates, Snapshot, historyLimit)
    /\ futureStates' = <<>>
    /\ SetData(data)
    /\ canUndo' = (Len(pastStates') > 0)
    /\ canRedo' = (Len(futureStates') > 0)

\* a handler that returns before calling set
NoSet ==
    UNCHANGED <<skeletons, selectedSkeletonId, selectedBoneId, selectedIKConstraintId,
                selectedRigAnimationId, currentTime, canUndo, canRedo,
                pastStates, futureStates>>

Called(op, skeletonId, boneId, arg) ==
    /\ steps < MaxSteps
    /\ steps' = steps + 1
    /\ lastOp' = [op |-> op, skeletonId |-> skeletonId, boneId |-> boneId, arg |-> arg]
    /\ UNCHANGED historyLimit

\* a mutation of undo: the state left behind is not kept for redo, the
\* restored one is pushed instead
undoForgetsCurrent ==
    /\ Called("undo", Null, Null, Null)
    /\ UNCHANGED nextId
    /\ IF Len(pastStates) = 0 THEN NoSet
       ELSE /\ futureStates' = Append(futureStates, pastStates[Len(pastStates)])
            /\ pastStates' = SubSeq(pastStates, 1, Len(pastStates) - 1)
            /\ SetData(pastStates[Len(pastStates)])
            /\ canUndo' = (Len(pastStates') > 0)
            /\ canRedo' = (Len(futureStates') > 0)

undo ==
    /\ Called("undo", Null, Null, Null)
    /\ UNCHANGED nextId
    /\ IF Len(pastStates) = 0 THEN NoSet
       ELSE /\ futureStates' = Append(futureStates, Snapshot)
            /\ pastStates' = SubSeq(pastStates, 1, Len(pastStates) - 1)
            /\ SetData(pastStates[Len(pastStates)])
            /\ canUndo' = (Len(pastStates') > 0)
            /\ canRedo' = (Len(futureStates') > 0)

redo ==
    /\ Called("redo", Null, Null, Null)
    /\ UNCHANGED nextId
    /\ IF Len(futureStates) = 0 THEN NoSet
       ELSE /\ pastStates' = Append(pastStates, Snapshot)
            /\ futureStates' = SubSeq(futureStates, 1, Len(futureStates) - 1)
            /\ SetData(futureStates[Len(futureStates)])
            /\ canUndo' = (Len(pastStates') > 0)
            /\ canRedo' = (Len(futureStates') > 0)

----------------------------------------------------------------------------
(* Rig store: skeleton and bone operations *)

NoSuchId == MaxIds + 1          \* an id no skeleton or bone carries

SkeletonIds == {skeletons[i].id : i \in 1..Len(skeletons)}

BonesOf(skels, skeletonId) ==
    IF SkeletonIndex(skels, skeletonId) = 0 THEN <<>>
    ELSE skels[SkeletonIndex(skels, skeletonId)].bones

NewSkeleton(id) ==
    [id |-> id, bones |-> <<>>, ikConstraints |-> <<>>, rigAnimations |-> <<>>]

createSkeleton ==
    /\ nextId <= MaxIds
    /\ Called("createSkeleton", nextId, Null, Null)
    /\ nextId' = nextId + 1
    /\ trackedSet([Snapshot EXCEPT
            !.skeletons = Append(skeletons, NewSkeleton(nextId)),
            !.selectedSkeletonId = nextId])

\* boneIdMap: the k-th source bone gets the k-th id generated after newId
DuplicateBones(bones, newId) ==
    [i \in 1..Len(bones) |->
        [bones[i] EXCEPT
            !.id = newId + i,
            !.parentId =
                IF bones[i].parentId # Null /\ BoneIndex(bones, bones[i].parentId) # 0
                THEN newId + BoneIndex(bones, bones[i].parentId)
                ELSE Null]]

duplicateSkeleton(id) ==
    LET idx == SkeletonIndex(skeletons, id)
        count == IF idx = 0 THEN 0 ELSE Len(skeletons[idx].bones)
    IN
    /\ nextId + count <= MaxIds
    /\ Called("duplicateSkeleton", id, Null, Null)
    /\ nextId' = nextId + 1 + count
    /\ IF idx = 0 THEN trackedSet(Snapshot)
       ELSE trackedSet([Snapshot EXCEPT
                !.skeletons = Append(skeletons,
                    [skeletons[idx] EXCEPT
                        !.id = nextId,
                        !.bones = DuplicateBones(skeletons[idx].bones, nextId),
                        !.ikConstraints = <<>>,
                        !.rigAnimations = <<>>]),
                !.selectedSkeletonId = nextId])

NewBone(id, parentId, boneInit) ==
    Merge([id |-> id, parentId |-> parentId, x |-> 0, y |-> 0, rotation |-> 0,
           scaleX |-> 1, scaleY |-> 1, length |-> 50],
          boneInit)

addBone(skeletonId, parentId, boneInit) ==
    LET Added(s) == Append(s.bones, NewBone(nextId, parentId, boneInit))
    IN
    /\ nextId <= MaxIds
    /\ Called("addBone", skeletonId, nextId, parentId)
    /\ nextId' = nextId + 1
    /\ trackedSet([Snapshot EXCEPT
            !.skeletons = MapSkeletonBones(skeletons, skeletonId, Added),
            !.selectedBoneId = nextId])

updateBone(skeletonId, boneId, updates) ==
    LET Updated(s) ==
            [i \in 1..Len(s.bones) |->
                IF s.bones[i].id = boneId THEN Merge(s.bones[i], updates) ELSE s.bones[i]]
    IN
    /\ Called("updateBone", skeletonId, boneId, updates)
    /\ UNCHANGED nextId
    /\ trackedSet([Snapshot EXCEPT
            !.skeletons = MapSkeletonBones(skeletons, skeletonId, Updated)])

\* one forEach pass of removeBone over bones[i..]: children of marked bones get marked
RECURSIVE MarkPass(_, _, _)
MarkPass(bones, i, toDelete) ==
    IF i > Len(bones) THEN toDelete
    ELSE LET b == bones[i]
         IN IF b.parentId # Null /\ b.parentId \in toDelete /\ b.id \notin toDelete
            THEN MarkPass(bones, i + 1, toDelete \cup {b.id})
            ELSE MarkPass(bones, i + 1, toDelete)

\* a mutation: one forEach pass over the children of the bone, no loop
MarkChildrenOnly(bones, toDelete) ==
    toDelete \cup {b.id : b \in {c \in Range(bones) : c.parentId # Null /\ c.parentId \in toDelete}}

\* do { added = false; forEach ... } while (added)
RECURSIVE MarkDescendants(_, _)
MarkDescendants(bones, toDelete) ==
    LET after == MarkPass(bones, 1, toDelete)
    IN IF after = toDelete THEN toDelete ELSE MarkDescendants(bones, after)

removeBone(skeletonId, boneId) ==
    LET Remaining(s) ==
            LET toDelete == MarkDescendants(s.bones, {boneId})
                Keep(b) == b.id \notin toDelete
            IN SelectSeq(s.bones, Keep)
    IN
    /\ Called("removeBone", skeletonId, boneId, Null)
    /\ UNCHANGED nextId
    /\ trackedSet([Snapshot EXCEPT
            !.skeletons = MapSkeletonBones(skeletons, skeletonId, Remaining),
            !.selectedBoneId = IF selectedBoneId = boneId THEN Null ELSE selectedBoneId])

\* bones.find(b => b.id === current?.parentId): the bone the walk moves to, 0 when none
ParentIndex(bones, i) == BoneIndex(bones, bones[i].parentId)

\* the ancestor walk of reparentBone from bone index cur: "reject" when it meets
\* boneId, "accept" when it runs off the tree, "diverge" when the while loop
\* never ends (it revisits a bone: more steps than there are bones)
RECURSIVE AncestorWalk(_, _, _, _)
AncestorWalk(bones, boneId, cur, fuel) ==
    IF cur = 0 THEN "accept"
    ELSE IF bones[cur].id = boneId THEN "reject"
    ELSE IF fuel = 0 THEN "diverge"
    ELSE AncestorWalk(bones, boneId, ParentIndex(bones, cur), fuel - 1)

\* the check as a bug would write it: only the new parent itself is compared
ReparentCheckDirect(bones, boneId, newParentId) ==
    IF newParentId = Null THEN "accept"
    ELSE IF newParentId = boneId THEN "reject"
    ELSE "accept"

\* if (newParentId) { let current = find(newParentId); while (current) ... }
ReparentCheck(bones, boneId, newParentId) ==
    IF newParentId = Null THEN "accept"
    ELSE AncestorWalk(bones, boneId, BoneIndex(bones, newParentId), Len(bones))

reparentBone(skeletonId, boneId, newParentId) ==
    LET idx == SkeletonIndex(skeletons, skeletonId)
        Reparented(s) ==
            [i \in 1..Len(s.bones) |->
                IF s.bones[i].id = boneId
                THEN [s.bones[i] EXCEPT !.parentId = newParentId]
                ELSE s.bones[i]]
    IN
    /\ Called("reparentBone", skeletonId, boneId, newParentId)
    /\ UNCHANGED nextId
    /\ IF idx = 0 THEN NoSet
       ELSE IF ReparentCheck(skeletons[idx].bones, boneId, newParentId) # "accept"
       THEN NoSet    \* rejected with a warning (or the walk never returns)
       ELSE trackedSet([Snapshot EXCEPT
                !.skeletons = MapSkeletonBones(skeletons, skeletonId, Reparented)])

----------------------------------------------------------------------------
(* Descendants and forests *)

\* ids of boneId and of every bone below it: the least set closed under "child of"
RECURSIVE SelfOrDescendants(_, _)
SelfOrDescendants(bones, ids) ==
    LET more == ids \cup {b.id : b \in {c \in Range(bones) : c.parentId \in ids}}
    IN IF more = ids THEN ids ELSE SelfOrDescendants(bones, more)

\* following parentId from bone index cur never revisits a bone
RECURSIVE WalkNeverRevisits(_, _, _)
WalkNeverRevisits(bones, cur, visited) ==
    IF cur = 0 THEN TRUE
    ELSE IF bones[cur].id \in visited THEN FALSE
    ELSE WalkNeverRevisits(bones, ParentIndex(bones, cur), visited \cup {bones[cur].id})

IsForest(bones) == \A i \in 1..Len(bones) : WalkNeverRevisits(bones, i, {})

----------------------------------------------------------------------------
(* Fixed-point arithmetic with the IEEE special values the solver can meet *)

Scale == 1000              \* fixed-point unit: 1/Scale pixel; the IK epsilon 0.001 is 1
NaN == 999999999           \* JavaScript NaN
PosInf == 999999998        \* +Infinity
NegInf == 999999997        \* -Infinity

IsFinite(v) == v # NaN /\ v # PosInf /\ v # NegInf

Abs(n) == IF n < 0 THEN 0 - n ELSE n

\* n / d for d > 0, rounded to the nearest integer
RoundDiv(n, d) == (2 * n + d) \div (2 * d)

\* a + b, a - b, a * b on values that may be NaN
FAdd(a, b) == IF a = NaN \/ b = NaN THEN NaN ELSE a + b
FSub(a, b) == IF a = NaN \/ b = NaN THEN NaN ELSE a - b
FMul(a, b) == IF a = NaN \/ b = NaN THEN NaN ELSE a * b

\* num / den in floating point, den >= 0, result in units of 1/unit of den:
\* 0/0 is NaN and x/0 is an infinity of the sign of x
FDiv(num, den) ==
    IF num = NaN \/ den = NaN THEN NaN
    ELSE IF den = 0
         THEN (IF num = 0 THEN NaN ELSE IF num > 0 THEN PosInf ELSE NegInf)
         ELSE RoundDiv(num, den)

\* Math.max(-1, Math.min(1, v)) in 1/Scale: NaN stays NaN, infinities clamp
ClampUnit(v) ==
    IF v = NaN THEN NaN
    ELSE IF v = PosInf THEN Scale
    ELSE IF v = NegInf THEN 0 - Scale
    ELSE IF v > Scale THEN Scale
    ELSE IF v < 0 - Scale THEN 0 - Scale
    ELSE v

\* sin of 0..90 degrees in 1/Scale
SinTable ==
    << 0, 17, 35, 52, 70, 87, 105, 122, 139, 156, 174, 191, 208,
       225, 242, 259, 276, 292, 309, 326, 342, 358, 375, 391, 407, 423,
       438, 454, 469, 485, 500, 515, 530, 545, 559, 574, 588, 602, 616,
       629, 643, 656, 669, 682, 695, 707, 719, 731, 743, 755, 766, 777,
       788, 799, 809, 819, 829, 839, 848, 857, 866, 875, 883, 891, 899,
       906, 914, 921, 927, 934, 940, 946, 951, 956, 961, 966, 970, 974,
       978, 982, 985, 988, 990, 993, 995, 996, 998, 999, 999, 1000, 1000 >>

\* Math.sin(deg * Math.PI / 180) in 1/Scale
Sin(deg) ==
    IF deg = NaN THEN NaN
    ELSE LET d == deg % 360
         IN IF d <= 90 THEN SinTable[d + 1]
            ELSE IF d <= 180 THEN SinTable[180 - d + 1]
            ELSE IF d <= 270 THEN 0 - SinTable[d - 180 + 1]
            ELSE 0 - SinTable[360 - d + 1]

\* Math.cos(deg * Math.PI / 180) in 1/Scale
Cos(deg) == IF deg = NaN THEN NaN ELSE Sin(deg + 90)

\* Math.acos(v) in degrees, v in 1/Scale within [-Scale, Scale]: the table angle
\* whose cosine is nearest to v (the least one when several are), and
\* acos(-v) = 180 - acos(v)
AcosNonNegative(v) ==
    LET k == CHOOSE j \in 0..90 :
                /\ Cos(j) <= v
                /\ \A i \in 0..(j - 1) : Cos(i) > v
    IN IF k > 0 /\ Abs(Cos(k - 1) - v) < Abs(Cos(k) - v) THEN k - 1 ELSE k

Acos(v) ==
    IF v = NaN THEN NaN
    ELSE IF v >= 0 THEN AcosNonNegative(v)
    ELSE 180 - AcosNonNegative(0 - v)

\* Math.atan2(dy, dx) in degrees
Atan2(dy, dx) ==
    IF dy = NaN \/ dx = NaN THEN NaN
    ELSE IF dx = 0 /\ dy = 0 THEN 0
    ELSE LET ax == Abs(dx)
             ay == Abs(dy)
             Cross(j) == ay * Cos(j) - ax * Sin(j)
             k == CHOOSE j \in 0..90 :
                    /\ Cross(j) <= 0
                    /\ \A i \in 0..(j - 1) : Cross(i) > 0
             q == IF k > 0 /\ Abs(Cross(k - 1)) < Abs(Cross(k)) THEN k - 1 ELSE k
         IN IF dx >= 0 /\ dy >= 0 THEN q
            ELSE IF dx < 0 /\ dy >= 0 THEN 180 - q
            ELSE IF dx < 0 THEN q - 180
            ELSE 0 - q

\* floor of the square root of n >= 0, by bisection on [lo, hi]
RECURSIVE SqrtBetween(_, _, _)
SqrtBetween(n, lo, hi) ==
    IF lo >= hi THEN lo
    ELSE LET mid == (lo + hi + 1) \div 2
         IN IF mid * mid <= n THEN SqrtBetween(n, mid, hi)
            ELSE SqrtBetween(n, lo, mid - 1)

\* Math.sqrt(n) for n in 1/Scale^2, result in 1/Scale
Sqrt(n) == IF n = NaN THEN NaN ELSE SqrtBetween(n, 0, 46340)

----------------------------------------------------------------------------
(* Transform resolver (resolveSkeleton) *)

\* x * t / Scale for a fixed-point x and a table value t (sin, cos or mix)
FixMul(x, t) == IF x = NaN \/ t = NaN THEN NaN ELSE RoundDiv(x * t, Scale)

IdentityTransform == [x |-> 0, y |-> 0, rotation |-> 0, scaleX |-> 1, scaleY |-> 1]

\* const local: Transform = { x: bone.x, ... }, positions in 1/Scale
LocalTransform(bone) ==
    [x |-> bone.x * Scale, y |-> bone.y * Scale, rotation |-> bone.rotation,
     scaleX |-> bone.scaleX, scaleY |-> bone.scaleY]

\* the composition as a bug would write it: the local position scaled by the
\* bone's own scale instead of its parent's
applyTransformOwnScale(parent, local) ==
    LET cos == Cos(parent.rotation)
        sin == Sin(parent.rotation)
        lx == local.x * local.scaleX
        ly == local.y * local.scaleY
    IN [x |-> FAdd(parent.x, FSub(FixMul(lx, cos), FixMul(ly, sin))),
        y |-> FAdd(parent.y, FAdd(FixMul(lx, sin), FixMul(ly, cos))),
        rotation |-> FAdd(parent.rotation, local.rotation),
        scaleX |-> parent.scaleX * local.scaleX,
        scaleY |-> parent.scaleY * local.scaleY]

applyTransform(parent, local) ==
    LET cos == Cos(parent.rotation)
        sin == Sin(parent.rotation)
        lx == FMul(local.x, parent.scaleX)
        ly == FMul(local.y, parent.scaleY)
    IN [x |-> FAdd(parent.x, FSub(FixMul(lx, cos), FixMul(ly, sin))),
        y |-> FAdd(parent.y, FAdd(FixMul(lx, sin), FixMul(ly, cos))),
        rotation |-> FAdd(parent.rotation, local.rotation),
        scaleX |-> parent.scaleX * local.scaleX,
        scaleY |-> parent.scaleY * local.scaleY]

\* transforms.set(boneId, t)
MapSet(map, key, value) ==
    [k \in DOMAIN map \cup {key} |-> IF k = key THEN value ELSE map[k]]

\* resolveBone as a bug would write it: the memo is written but never consulted
RECURSIVE resolveBoneNoMemo(_, _, _)
resolveBoneNoMemo(bones, transforms, boneId) ==
    LET idx == BoneIndex(bones, boneId)
    IN IF idx = 0
       THEN [transforms |-> transforms, value |-> IdentityTransform, computed |-> <<>>]
       ELSE LET bone == bones[idx]
                local == LocalTransform(bone)
            IN IF bone.parentId = Null
               THEN [transforms |-> MapSet(transforms, boneId, local),
                     value |-> local, computed |-> <<boneId>>]
               ELSE LET up == resolveBoneNoMemo(bones, transforms, bone.parentId)
                        world == applyTransform(up.value, local)
                    IN [transforms |-> MapSet(up.transforms, boneId, world),
                        value |-> world,
                        computed |-> Append(up.computed, boneId)]

\* resolveBone(boneId) against the memo `transforms`: the memo after the call,
\* the transform returned, and the ids whose transform the call computed
RECURSIVE resolveBone(_, _, _)
resolveBone(bones, transforms, boneId) ==
    IF boneId \in DOMAIN transforms
    THEN [transforms |-> transforms, value |-> transforms[boneId], computed |-> <<>>]
    ELSE LET idx == BoneIndex(bones, boneId)
         IN IF idx = 0
            THEN [transforms |-> transforms, value |-> IdentityTransform, computed |-> <<>>]
            ELSE LET bone == bones[idx]
                     local == LocalTransform(bone)
                 IN IF bone.parentId = Null
                    THEN [transforms |-> MapSet(transforms, boneId, local),
                          value |-> local, computed |-> <<boneId>>]
                    ELSE LET up == resolveBone(bones, transforms, bone.parentId)
                             world == applyTransform(up.value, local)
                         IN [transforms |-> MapSet(up.transforms, boneId, world),
                             value |-> world,
                             computed |-> Append(up.computed, boneId)]

EmptyMap == [k \in {} |-> IdentityTransform]

\* skeleton.bones.forEach(b => resolveBone(b.id)) over bones[i..], from memo
RECURSIVE resolveFrom(_, _, _)
resolveFrom(bones, i, transforms) ==
    IF i > Len(bones) THEN transforms
    ELSE resolveFrom(bones, i + 1, resolveBone(bones, transforms, bones[i].id).transforms)

resolveSkeleton(bones) == resolveFrom(bones, 1, EmptyMap)

----------------------------------------------------------------------------
(* Two-bone IK solver *)

\* the bone indices from the root down to bones[idx]: boneIds after the while loop
RECURSIVE ChainIndices(_, _)
ChainIndices(bones, idx) ==
    IF idx = 0 THEN <<>>
    ELSE Append(ChainIndices(bones, ParentIndex(bones, idx)), idx)

\* the for loop of computeBoneChainWorld over the first n chain bones:
\* world x, y in 1/Scale and the accumulated rotation
RECURSIVE ChainWorld(_, _, _)
ChainWorld(bones, ids, n) ==
    IF n = 0 THEN <<>>
    ELSE LET before == ChainWorld(bones, ids, n - 1)
             worldX == IF n = 1 THEN 0 ELSE before[n - 1].worldX
             worldY == IF n = 1 THEN 0 ELSE before[n - 1].worldY
             worldRotation == IF n = 1 THEN 0 ELSE before[n - 1].worldRotation
             bone == bones[ids[n]]
             localX == bone.x * bone.scaleX
             localY == bone.y * bone.scaleY
         IN Append(before,
                [bone |-> bone,
                 worldX |-> FAdd(worldX, FSub(FMul(Cos(worldRotation), localX),
                                              FMul(Sin(worldRotation), localY))),
                 worldY |-> FAdd(worldY, FAdd(FMul(Sin(worldRotation), localX),
                                              FMul(Cos(worldRotation), localY))),
                 worldRotation |-> FAdd(worldRotation, bone.rotation)])

computeBoneChainWorld(bones, targetBoneId) ==
    LET ids == ChainIndices(bones, BoneIndex(bones, targetBoneId))
    IN ChainWorld(bones, ids, Len(ids))

\* dx * dx + dy * dy
DistanceSquared(dx, dy) == FAdd(FMul(dx, dx), FMul(dy, dy))

\* the reachability test as a bug would write it: the bounds themselves count
\* as unreachable
ReachStrict(parentLength, childLength, d2) ==
    LET maxReach == (parentLength + childLength) * Scale
        minReach == Abs(parentLength - childLength) * Scale
    IN IF d2 = NaN THEN "within"
       ELSE IF d2 >= maxReach * maxReach THEN "far"
       ELSE IF d2 <= minReach * minReach THEN "near"
       ELSE "within"

\* the reachability test on distance (compared through its square, which is
\* exact): "far" for distance > maxReach, "near" for distance < minReach
Reach(parentLength, childLength, d2) ==
    LET maxReach == (parentLength + childLength) * Scale
        minReach == Abs(parentLength - childLength) * Scale
    IN IF d2 = NaN THEN "within"
       ELSE IF d2 > maxReach * maxReach THEN "far"
       ELSE IF d2 < minReach * minReach THEN "near"
       ELSE "within"

\* clampedDistance in 1/Scale
ClampedDistance(parentLength, childLength, d2) ==
    LET reach == Reach(parentLength, childLength, d2)
    IN IF reach = "far" THEN (parentLength + childLength) * Scale - 1
       ELSE IF reach = "near" THEN Abs(parentLength - childLength) * Scale + 1
       ELSE Sqrt(d2)

\* solve2BoneIK: lengths and target in pixels, origin in 1/Scale, rotations in degrees
solve2BoneIK(parentLength, childLength, targetX, targetY, originX, originY, bendPositive) ==
    LET dx == FSub(targetX * Scale, originX)
        dy == FSub(targetY * Scale, originY)
        d2 == DistanceSquared(dx, dy)
        angleToTarget == Atan2(dy, dx)
        reachable == Reach(parentLength, childLength, d2) = "within"
        c == ClampedDistance(parentLength, childLength, d2)
        a2 == parentLength * parentLength * Scale * Scale
        b2 == childLength * childLength * Scale * Scale
        c2 == FMul(c, c)
        cosAngleA == FDiv(FSub(FAdd(a2, c2), b2), FMul(2 * parentLength, c))
        angleA == Acos(ClampUnit(cosAngleA))
        cosAngleB == FDiv(FSub(a2 + b2, c2), 2 * parentLength * childLength * Scale)
        angleB == Acos(ClampUnit(cosAngleB))
    IN [parentRotation |-> IF bendPositive THEN FAdd(angleToTarget, angleA)
                           ELSE FSub(angleToTarget, angleA),
        childRotation |-> IF bendPositive THEN FSub(0, FSub(180, angleB))
                          ELSE FSub(180, angleB),
        reachable |-> reachable,
        clampedDistance |-> c]

\* the skip guard as a bug would write it: the enabled flag is not consulted
IKSkippedMixOnly(constraint) == constraint.mix = 0

\* if (!constraint.enabled || constraint.mix === 0) return bones
IKSkipped(constraint) == ~constraint.enabled \/ constraint.mix = 0

\* the chain-length guard as a bug would write it: any chain length is solved
IKChainSupportedAny(constraint) == TRUE

\* if (constraint.chainLength !== 2) { warn; return bones }
IKChainSupported(constraint) == constraint.chainLength = 2

\* which return of applyIKConstraint is taken: "skipped", "noBone",
\* "unsupported", "noParent", or "solve" when the solver is called
IKOutcome(bones, constraint) ==
    LET end == BoneIndex(bones, constraint.targetBoneId)
    IN IF IKSkipped(constraint) THEN "skipped"
       ELSE IF end = 0 THEN "noBone"
       ELSE IF ~IKChainSupported(constraint) THEN "unsupported"
       ELSE IF ParentIndex(bones, end) = 0 THEN "noParent"
       ELSE "solve"

\* the origin handed to solve2BoneIK: parentWorld.worldX / worldY (the values
\* computed from the grandparent before are overwritten)
IKOrigin(bones, constraint) ==
    LET child == BoneIndex(bones, constraint.targetBoneId)
        parentBone == bones[ParentIndex(bones, child)]
        chain == computeBoneChainWorld(bones, parentBone.id)
        parentWorld == chain[Len(chain)]
    IN [x |-> parentWorld.worldX, y |-> parentWorld.worldY,
        worldRotation |-> parentWorld.worldRotation]

\* b.rotation + (target - b.rotation) * mix, mix in 1/Scale
Blend(rotation, target, mix) == FAdd(rotation, FixMul(FSub(target, rotation), mix))

applyIKConstraint(bones, constraint) ==
    IF IKOutcome(bones, constraint) # "solve" THEN bones
    ELSE LET childBone == bones[BoneIndex(bones, constraint.targetBoneId)]
             parentBone == bones[BoneIndex(bones, childBone.parentId)]
             origin == IKOrigin(bones, constraint)
             result == solve2BoneIK(parentBone.length, childBone.length,
                                    constraint.targetX, constraint.targetY,
                                    origin.x, origin.y, constraint.bendPositive)
             parentAncestorRotation == FSub(origin.worldRotation, parentBone.rotation)
             targetParentRotation == FSub(result.parentRotation, parentAncestorRotation)
         IN [i \in 1..Len(bones) |->
                IF bones[i].id = parentBone.id
                THEN [bones[i] EXCEPT
                        !.rotation = Blend(bones[i].rotation, targetParentRotation,
                                           constraint.mix)]
                ELSE IF bones[i].id = childBone.id
                THEN [bones[i] EXCEPT
                        !.rotation = Blend(bones[i].rotation, result.childRotation,
                                           constraint.mix)]
                ELSE bones[i]]

\* the loop body as a bug would write it: every constraint applied to the input
applyAllStepOnInput(bones, result, constraint) == applyIKConstraint(bones, constraint)

\* result = applyIKConstraint(result, constraint), one iteration of the loop
\* of applyAllIKConstraints(bones, constraints)
applyAllStep(bones, result, constraint) == applyIKConstraint(result, constraint)

\* applyAllIKConstraints after its first n iterations
RECURSIVE applyAllIKConstraints(_, _, _)
applyAllIKConstraints(bones, constraints, n) ==
    IF n = 0 THEN bones
    ELSE applyAllStep(bones, applyAllIKConstraints(bones, constraints, n - 1),
                      constraints[n])

----------------------------------------------------------------------------
(* Mask analyzer (auto-rig): validation, layout and the segment-to-bone       *)
(* conversion.  A mask is a canvas of `width` columns whose rows are, from   *)
(* the first: `top` rows of one alpha value, `gap` transparent rows, and     *)
(* `bottom` rows of that alpha value again (gap = bottom = 0 is a canvas     *)
(* filled with one alpha value).  Layout coordinates are in 1/Centi pixel.   *)

Max(a, b) == IF a >= b THEN a ELSE b
Min(a, b) == IF a <= b THEN a ELSE b

Height(image) == image.top + image.gap + image.bottom

\* the rows that hold pixels of image.alpha, and the last of them
OpaqueRows(image) == image.top + image.bottom
LastRow(image) == IF image.bottom > 0 THEN Height(image) - 1 ELSE image.top - 1

\* count: the pixels with alpha > alphaThreshold
OpaqueCount(image, alphaThreshold) ==
    IF image.alpha <= alphaThreshold THEN 0 ELSE image.width * OpaqueRows(image)

\* sum of (y - k)^p over the rows a..b, for p = 1 and p = 2
SumBetween(a, b, k) == IF b < a THEN 0 ELSE ((a + b - 2 * k) * (b - a + 1)) \div 2
SumSqTo(n) == (n * (n + 1) * (2 * n + 1)) \div 6
SumSqBetween(a, b, k) ==
    IF b < a THEN 0
    ELSE (SumSqTo(b) - SumSqTo(a - 1)) - 2 * k * SumBetween(a, b, 0) + (b - a + 1) * k * k

\* count^2 * varYY over the opaque rows (sumYY / count - cy * cy, times count^2)
RowVariance(image) ==
    LET k == LastRow(image) \div 2
        from == image.top + image.gap
        sum == SumBetween(0, image.top - 1, k) + SumBetween(from, from + image.bottom - 1, k)
        sumSq == SumSqBetween(0, image.top - 1, k)
                 + SumSqBetween(from, from + image.bottom - 1, k)
    IN OpaqueRows(image) * sumSq - sum * sum

\* theta = 0.5 * atan2(2 * covXY, varXX - varYY) with covXY = 0: the axis is
\* x (theta = 0) when varXX >= varYY, where varXX = (width^2 - 1) / 12, and y
\* otherwise
AxisIsX(image) ==
    RowVariance(image) <=
        (OpaqueRows(image) * OpaqueRows(image) * (image.width * image.width - 1)) \div 12

\* t - minT of the pixels: the opaque rows, or every column when the axis is x
MajorOffsets(image) ==
    IF AxisIsX(image) THEN 0..(image.width - 1)
    ELSE (0..(image.top - 1))
         \cup {y \in (image.top + image.gap)..(Height(image) - 1) : image.bottom > 0}

\* maxT - minT
MajorSpan(image) == IF AxisIsX(image) THEN image.width - 1 ELSE LastRow(image)

\* bodyHeight = Math.max(12, maxT - minT)
BodyHeight(image) == Max(12, MajorSpan(image))

\* binCount = clamp(Math.round(bodyHeight), 64, 2048)
BinCount(image) == Max(64, Min(2048, BodyHeight(image)))

\* idx = clamp(Math.floor((t - minT) / binSize), 0, binCount - 1)
BinOf(offset, bodyHeight, binCount) ==
    Min(binCount - 1, (offset * binCount) \div bodyHeight)

\* rows.length: the bins that hold a pixel
PopulatedRows(image) ==
    LET bodyHeight == BodyHeight(image)
        binCount == BinCount(image)
    IN Cardinality({BinOf(o, bodyHeight, binCount) : o \in MajorOffsets(image)})

\* a mutation: only the pixel count is validated
MaskErrorPixelsOnly(image, alphaThreshold) ==
    IF OpaqueCount(image, alphaThreshold) < 100 THEN "Not enough opaque pixels" ELSE "none"

\* the two throws of buildLayoutFromMask
MaskError(image, alphaThreshold) ==
    IF OpaqueCount(image, alphaThreshold) < 100 THEN "Not enough opaque pixels"
    ELSE IF PopulatedRows(image) < 10 THEN "Mask analysis failed"
    ELSE "none"

Seg(key, parentKey) == [key |-> key, parentKey |-> parentKey]

\* the literal as a copy-paste slip would write it
SegmentsSlip ==
    << Seg("root", "null"), Seg("spine", "root"), Seg("head", "spine"),
       Seg("upper_arm_l", "spine"), Seg("lower_arm_l", "upper_arm_l"),
       Seg("upper_arm_r", "spine"), Seg("lower_arm_r", "upper_arm_l"),
       Seg("upper_leg_l", "root"), Seg("lower_leg_l", "upper_leg_l"),
       Seg("upper_leg_r", "root"), Seg("lower_leg_r", "upper_leg_r") >>

\* const segments: BoneSegment[] = [...] (key and parentKey of each entry)
Segments ==
    << Seg("root", "null"), Seg("spine", "root"), Seg("head", "spine"),
       Seg("upper_arm_l", "spine"), Seg("lower_arm_l", "upper_arm_l"),
       Seg("upper_arm_r", "spine"), Seg("lower_arm_r", "upper_arm_r"),
       Seg("upper_leg_l", "root"), Seg("lower_leg_l", "upper_leg_l"),
       Seg("upper_leg_r", "root"), Seg("lower_leg_r", "upper_leg_r") >>

\* the keys of the map `resolved` after the first loop of convertSegmentsToBones
ResolvedKeys(segments) == {segments[i].key : i \in 1..Len(segments)}

\* one iteration of the second loop: the bones pushed so far, then this segment's
\* bone unless its parent is not in `resolved`
ConvertSegment(result, segments, i) ==
    LET segment == segments[i]
    IN IF segment.key \notin ResolvedKeys(segments) THEN result
       ELSE IF segment.parentKey = "null"
       THEN Append(result, [key |-> segment.key, parentKey |-> "null"])
       ELSE IF segment.parentKey \notin ResolvedKeys(segments) THEN result
       ELSE Append(result, [key |-> segment.key, parentKey |-> segment.parentKey])

AttachmentSpec(key, boneKey) == [key |-> key, boneKey |-> boneKey]

\* const specs = [...] of generateAttachments (key and boneKey of each entry)
AttachmentSpecs ==
    << AttachmentSpec("torso", "root"), AttachmentSpec("head", "head"),
       AttachmentSpec("upper_arm_l", "upper_arm_l"), AttachmentSpec("lower_arm_l", "lower_arm_l"),
       AttachmentSpec("upper_arm_r", "upper_arm_r"), AttachmentSpec("lower_arm_r", "lower_arm_r"),
       AttachmentSpec("upper_leg_l", "upper_leg_l"), AttachmentSpec("lower_leg_l", "lower_leg_l"),
       AttachmentSpec("upper_leg_r", "upper_leg_r"), AttachmentSpec("lower_leg_r", "lower_leg_r") >>

\* the loop of generateAttachments: a spec is skipped when its piece is null
\* or its bone has no segment; empty is the set of keys with a null piece
generateAttachments(segments, empty) ==
    LET Sliced(spec) == spec.key \notin empty /\ spec.boneKey \in ResolvedKeys(segments)
    IN SelectSeq(AttachmentSpecs, Sliced)

NoSlicesWarning == "No attachment slices were generated; bones were still created."

----------------------------------------------------------------------------
(* Keyframe interpolation engine.  A keyframe is a record with the fields    *)
(* time and easing and any subset of x, y, rotation, scaleX, scaleY; times   *)
(* are integer milliseconds, values integers, progress is in 1/Scale.        *)

PoseFields == {"x", "y", "rotation", "scaleX", "scaleY"}

\* a + (b - a) * t, with t in 1/Scale
lerp(a, b, t) == a + RoundDiv((b - a) * t, Scale)

\* JavaScript's %: the remainder has the sign of the dividend
Rem(a, n) == IF a >= 0 THEN a % n ELSE 0 - ((0 - a) % n)

\* normalizeAngle as a bug would write it: the remainder alone, never wrapped
normalizeAngleNoWrap(angle) == Rem(angle, 360)

normalizeAngle(angle) ==
    LET r == Rem(angle, 360)
        wrappedDown == IF r > 180 THEN r - 360 ELSE r
    IN IF wrappedDown < -180 THEN wrappedDown + 360 ELSE wrappedDown

lerpAngle(a, b, t) == a + RoundDiv(normalizeAngle(b - a) * t, Scale)

\* getBezierEasing(easing)(t) for 'linear' and 'step', t in 1/Scale
Ease(easing, t) ==
    IF easing = "step" THEN (IF t < Scale THEN 0 ELSE Scale)
    ELSE t

\* the fields interpolateKeyframes writes into result
InterpolatedFields(k1, k2) == {f \in PoseFields : f \in DOMAIN k1 /\ f \in DOMAIN k2}

\* interpolateKeyframes as a bug would write it: the easing of k2 is applied
interpolateKeyframesEaseOfK2(k1, k2, time) ==
    LET duration == k2.time - k1.time
    IN IF duration <= 0 THEN k1
       ELSE LET t == RoundDiv((time - k1.time) * Scale, duration)
                progress == Ease(k2.easing, t)
            IN [f \in InterpolatedFields(k1, k2) |->
                    IF f = "rotation" THEN lerpAngle(k1[f], k2[f], progress)
                    ELSE lerp(k1[f], k2[f], progress)]

\* interpolateKeyframes as a bug would write it: a field k2 lacks is taken from k1
interpolateKeyframesFromK1(k1, k2, time) ==
    LET duration == k2.time - k1.time
    IN IF duration <= 0 THEN k1
       ELSE LET t == RoundDiv((time - k1.time) * Scale, duration)
                progress == Ease(k1.easing, t)
            IN [f \in PoseFields \cap DOMAIN k1 |->
                    IF f \notin DOMAIN k2 THEN k1[f]
                    ELSE IF f = "rotation" THEN lerpAngle(k1[f], k2[f], progress)
                    ELSE lerp(k1[f], k2[f], progress)]

interpolateKeyframes(k1, k2, time) ==
    LET duration == k2.time - k1.time
    IN IF duration <= 0 THEN k1
       ELSE LET t == RoundDiv((time - k1.time) * Scale, duration)
                progress == Ease(k1.easing, t)
            IN [f \in InterpolatedFields(k1, k2) |->
                    IF f = "rotation" THEN lerpAngle(k1[f], k2[f], progress)
                    ELSE lerp(k1[f], k2[f], progress)]

\* one keyframe put into a list sorted by time, after every keyframe that
\* does not come later (Array.prototype.sort is stable)
RECURSIVE InsertByTime(_, _)
InsertByTime(sorted, k) ==
    IF sorted = <<>> THEN <<k>>
    ELSE IF sorted[Len(sorted)].time <= k.time THEN Append(sorted, k)
    ELSE Append(InsertByTime(SubSeq(sorted, 1, Len(sorted) - 1), k), sorted[Len(sorted)])

\* the sort as a bug would write it: the list is taken as given
SortByTimeAsGiven(keyframes, n) == SubSeq(keyframes, 1, n)

\* keyframes.sort((a, b) => a.time - b.time) over the first n elements
RECURSIVE SortByTime(_, _)
SortByTime(keyframes, n) ==
    IF n = 0 THEN <<>>
    ELSE InsertByTime(SortByTime(keyframes, n - 1), keyframes[n])

\* the index i of the loop's first pair with k1.time <= time < k2.time, 0 when none
RECURSIVE FindPair(_, _, _)
FindPair(keyframes, time, i) ==
    IF i >= Len(keyframes) THEN 0
    ELSE IF time >= keyframes[i].time /\ time < keyframes[i + 1].time THEN i
    ELSE FindPair(keyframes, time, i + 1)

NullResult == [kind |-> "null", value |-> <<>>]
Returned(value) == [kind |-> "value", value |-> value]

\* evaluateTrackAtTime(keyframes, time): the caller's array after the call,
\* the value returned, the return taken and the pair interpolated (0 when none)
evaluateTrackAtTime(keyframes, time) ==
    IF Len(keyframes) = 0
    THEN [keyframes |-> keyframes, result |-> NullResult, path |-> "empty", pair |-> 0]
    ELSE LET sorted == SortByTime(keyframes, Len(keyframes))
             i == FindPair(sorted, time, 1)
         IN IF time <= sorted[1].time
            THEN [keyframes |-> sorted, result |-> Returned(sorted[1]),
                  path |-> "first", pair |-> 0]
            ELSE IF time >= sorted[Len(sorted)].time
            THEN [keyframes |-> sorted, result |-> Returned(sorted[Len(sorted)]),
                  path |-> "last", pair |-> 0]
            ELSE IF i # 0
            THEN [keyframes |-> sorted,
                  result |-> Returned(interpolateKeyframes(sorted[i], sorted[i + 1], time)),
                  path |-> "between", pair |-> i]
            ELSE [keyframes |-> sorted, result |-> Returned(sorted[Len(sorted)]),
                  path |-> "fallthrough", pair |-> 0]

----------------------------------------------------------------------------
(* Mask analyzer: the layout.  Points are [s, t] in the frame of the          *)
(* principal axis (t along it from minT, s across it from the centroid), in   *)
(* 1/Scale pixel; directions are vectors of length Scale.  toWorld is a rigid *)
(* map, so the length of a segment is its length in this frame.               *)

Point(s, t) == [s |-> s, t |-> t]

RECURSIVE SumSet(_)
SumSet(S) == IF S = {} THEN 0 ELSE LET x == CHOOSE y \in S : TRUE IN x + SumSet(S \ {x})

\* cy, the mean row of the counted pixels
CentroidRow(image) ==
    RoundDiv((SumBetween(0, image.top - 1, 0)
              + SumBetween(image.top + image.gap, image.top + image.gap + image.bottom - 1, 0))
             * Scale,
             OpaqueRows(image))

\* minS and maxS of a cross-section: s = -(x - cx) when the axis is y, and
\* s = y - cy when it is x
AcrossMin(image) ==
    IF AxisIsX(image) THEN 0 - CentroidRow(image) ELSE 0 - ((image.width - 1) * Scale) \div 2
AcrossMax(image) ==
    IF AxisIsX(image) THEN LastRow(image) * Scale - CentroidRow(image)
    ELSE ((image.width - 1) * Scale) \div 2

\* the pixels of one cross-section
AcrossCount(image) == IF AxisIsX(image) THEN OpaqueRows(image) ELSE image.width

\* rows: one BodyRow per populated bin, by ascending t
BodyRows(image) ==
    LET offsets == MajorOffsets(image)
        bodyHeight == BodyHeight(image)
        binCount == BinCount(image)
        minS == AcrossMin(image)
        maxS == AcrossMax(image)
        each == AcrossCount(image)
        InBin(b) == {o \in ((b * bodyHeight) \div binCount)..(((b + 1) * bodyHeight) \div binCount + 1) :
                        o \in offsets /\ BinOf(o, bodyHeight, binCount) = b}
        Populated(b) == InBin(b) # {}
        bins == SelectSeq([i \in 1..binCount |-> i - 1], Populated)
    IN [i \in 1..Len(bins) |->
            [t |-> (SumSet(InBin(bins[i])) * Scale) \div Cardinality(InBin(bins[i])),
             meanS |-> 0,
             minS |-> minS,
             maxS |-> maxS,
             width |-> Max(Scale, maxS - minS),
             count |-> each * Cardinality(InBin(bins[i]))]]

\* row.ratio >= minPct / 100 && row.ratio <= maxPct / 100, ratio = t / bodyHeight
RatioWithin(row, bodyHeight, minPct, maxPct) ==
    /\ row.t * 100 >= minPct * bodyHeight * Scale
    /\ row.t * 100 <= maxPct * bodyHeight * Scale

NoRow == [t |-> -1]

\* the first of the widest rows in the ratio range, NoRow for null
selectRowByWidth(rows, bodyHeight, minPct, maxPct) ==
    LET InRange(row) == RatioWithin(row, bodyHeight, minPct, maxPct)
        inRange == SelectSeq(rows, InRange)
    IN IF Len(inRange) = 0 THEN NoRow
       ELSE inRange[CHOOSE i \in 1..Len(inRange) :
                        /\ \A j \in 1..Len(inRange) : inRange[j].width <= inRange[i].width
                        /\ \A j \in 1..(i - 1) : inRange[j].width < inRange[i].width]

\* the first of the rows whose ratio is nearest to targetPct / 100
selectRowNearest(rows, bodyHeight, targetPct) ==
    LET Off(row) == Abs(row.t * 100 - targetPct * bodyHeight * Scale)
    IN rows[CHOOSE i \in 1..Len(rows) :
                /\ \A j \in 1..Len(rows) : Off(rows[i]) <= Off(rows[j])
                /\ \A j \in 1..(i - 1) : Off(rows[j]) > Off(rows[i])]

RECURSIVE WeightSum(_, _)
WeightSum(values, n) == IF n = 0 THEN 0 ELSE WeightSum(values, n - 1) + values[n].weight

RECURSIVE WeightedSum(_, _)
WeightedSum(values, n) ==
    IF n = 0 THEN 0 ELSE WeightedSum(values, n - 1) + values[n].value * values[n].weight

weightedAverage(values, fallback) ==
    IF WeightSum(values, Len(values)) <= 0 THEN fallback
    ELSE RoundDiv(WeightedSum(values, Len(values)), WeightSum(values, Len(values)))

clamp(value, min, max) == Max(min, Min(max, value))

\* dist(a, b) >= length, for 0 <= length <= 46340
DistAtLeast(a, b, length) ==
    \/ Max(Abs(b.s - a.s), Abs(b.t - a.t)) >= length
    \/ (b.s - a.s) * (b.s - a.s) + (b.t - a.t) * (b.t - a.t) >= length * length

\* v / Math.hypot(v.x, v.y), or the fallback for the zero vector
normalize(v, fallback) ==
    IF v.s = 0 /\ v.t = 0 THEN fallback
    ELSE LET k == Max(Abs(v.s), Abs(v.t)) \div 20000 + 1
             ws == IF v.s >= 0 THEN v.s \div k ELSE 0 - ((0 - v.s) \div k)
             wt == IF v.t >= 0 THEN v.t \div k ELSE 0 - ((0 - v.t) \div k)
             len == Sqrt(ws * ws + wt * wt)
         IN Point(RoundDiv(ws * Scale, len), RoundDiv(wt * Scale, len))

\* a mutation: the end is returned whatever the length
ensureMinLengthAsGiven(start, end, minLength, fallbackDir) ==
    [point |-> end, extended |-> FALSE, minLength |-> minLength]

\* the end ensureMinLength returns, whether it is the extended one (then at
\* distance minLength from start), and the minimum asked for
ensureMinLength(start, end, minLength, fallbackDir) ==
    IF DistAtLeast(start, end, minLength)
    THEN [point |-> end, extended |-> FALSE, minLength |-> minLength]
    ELSE LET dir == normalize(Point(end.s - start.s, end.t - start.t), fallbackDir)
         IN [point |-> Point(start.s + RoundDiv(dir.s * minLength, Scale),
                             start.t + RoundDiv(dir.t * minLength, Scale)),
             extended |-> TRUE, minLength |-> minLength]

\* toWorld(s, t).x up to the translation by cx
ScreenX(image, p) == IF AxisIsX(image) THEN p.t ELSE 0 - p.s

sidePointsByScreenX(image, a, b) ==
    IF ScreenX(image, a) <= ScreenX(image, b) THEN [left |-> a, right |-> b]
    ELSE [left |-> b, right |-> a]

\* minBoneLength = Math.max(8, bodyHeight * 0.035)
MinBoneLength(bodyHeight) == Max(8 * Scale, 35 * bodyHeight)

\* a segment of the layout: its ends and what ensureMinLength did to its end
Segment(start, fixed) ==
    [start |-> start, end |-> fixed.point, extended |-> fixed.extended,
     minLength |-> fixed.minLength]

\* the segments once every joint is placed: the directions and the
\* ensureMinLength calls, then the segments literal, by segment key
LayoutFromJoints(minBoneLength, pelvis, chest, neck, headTop, shoulders, elbows, hands, hips, knees, feet) ==
    LET axisT == Point(0, Scale)
        axisS == Point(Scale, 0)
        torsoDir == normalize(Point(chest.s - pelvis.s, chest.t - pelvis.t), axisT)
        downDir == Point(0 - torsoDir.s, 0 - torsoDir.t)
        leftDir == normalize(Point(shoulders.left.s - chest.s, shoulders.left.t - chest.t),
                             Point(0 - axisS.s, 0 - axisS.t))
        rightDir == normalize(Point(shoulders.right.s - chest.s, shoulders.right.t - chest.t),
                              axisS)
        fixedChest == ensureMinLength(pelvis, chest, minBoneLength, torsoDir)
        fixedNeck == ensureMinLength(fixedChest.point, neck, (minBoneLength * 6) \div 10, torsoDir)
        fixedHead == ensureMinLength(fixedNeck.point, headTop, (minBoneLength * 8) \div 10, torsoDir)
        fixedLeftElbow == ensureMinLength(shoulders.left, elbows.left, minBoneLength, leftDir)
        fixedLeftHand == ensureMinLength(fixedLeftElbow.point, hands.left, minBoneLength, leftDir)
        fixedRightElbow == ensureMinLength(shoulders.right, elbows.right, minBoneLength, rightDir)
        fixedRightHand == ensureMinLength(fixedRightElbow.point, hands.right, minBoneLength, rightDir)
        fixedLeftKnee == ensureMinLength(hips.left, knees.left, minBoneLength, downDir)
        fixedLeftFoot == ensureMinLength(fixedLeftKnee.point, feet.left, minBoneLength, downDir)
        fixedRightKnee == ensureMinLength(hips.right, knees.right, minBoneLength, downDir)
        fixedRightFoot == ensureMinLength(fixedRightKnee.point, feet.right, minBoneLength, downDir)
    IN [root |-> Segment(pelvis, fixedChest),
        spine |-> Segment(fixedChest.point, fixedNeck),
        head |-> Segment(fixedNeck.point, fixedHead),
        upper_arm_l |-> Segment(shoulders.left, fixedLeftElbow),
        lower_arm_l |-> Segment(fixedLeftElbow.point, fixedLeftHand),
        upper_arm_r |-> Segment(shoulders.right, fixedRightElbow),
        lower_arm_r |-> Segment(fixedRightElbow.point, fixedRightHand),
        upper_leg_l |-> Segment(hips.left, fixedLeftKnee),
        lower_leg_l |-> Segment(fixedLeftKnee.point, fixedLeftFoot),
        upper_leg_r |-> Segment(hips.right, fixedRightKnee),
        lower_leg_r |-> Segment(fixedRightKnee.point, fixedRightFoot)]

\* the elbows and knees from the side points, the sides ordered by screen x
LayoutFromSides(image, H, minBoneLength, pelvis, chest, neck, headTop, sideMinShoulder, sideMaxShoulder, sideMinHip, sideMaxHip, sideMinHand, sideMaxHand, sideMinFoot, sideMaxFoot) ==
    LET sideMinElbow == Point(lerp(sideMinShoulder.s, sideMinHand.s, 520) - (H * 4) \div 100,
                              lerp(sideMinShoulder.t, sideMinHand.t, 500) + (H * 35) \div 1000)
        sideMaxElbow == Point(lerp(sideMaxShoulder.s, sideMaxHand.s, 520) + (H * 4) \div 100,
                              lerp(sideMaxShoulder.t, sideMaxHand.t, 500) + (H * 35) \div 1000)
        sideMinKnee == Point(lerp(sideMinHip.s, sideMinFoot.s, 480) - (H * 3) \div 100,
                             lerp(sideMinHip.t, sideMinFoot.t, 500) - (H * 15) \div 1000)
        sideMaxKnee == Point(lerp(sideMaxHip.s, sideMaxFoot.s, 480) + (H * 3) \div 100,
                             lerp(sideMaxHip.t, sideMaxFoot.t, 500) - (H * 15) \div 1000)
    IN LayoutFromJoints(minBoneLength, pelvis, chest, neck, headTop,
                        sidePointsByScreenX(image, sideMinShoulder, sideMaxShoulder),
                        sidePointsByScreenX(image, sideMinElbow, sideMaxElbow),
                        sidePointsByScreenX(image, sideMinHand, sideMaxHand),
                        sidePointsByScreenX(image, sideMinHip, sideMaxHip),
                        sidePointsByScreenX(image, sideMinKnee, sideMaxKnee),
                        sidePointsByScreenX(image, sideMinFoot, sideMaxFoot))

\* the centre line and the side points from the levels along the axis
LayoutFromLevels(image, H, minBoneLength, shoulderCenterS, hipCenterS, shoulderHalf, hipHalf, minArmReach, tShoulder, tHip, tNeck, tHeadTop, tFoot, handMin, handMax, footMinS, footMaxS) ==
    LayoutFromSides(image, H, minBoneLength,
        Point(hipCenterS, tHip),
        Point(shoulderCenterS, tShoulder),
        Point(shoulderCenterS, tNeck),
        Point(shoulderCenterS, tHeadTop),
        Point(shoulderCenterS - shoulderHalf, tShoulder),
        Point(shoulderCenterS + shoulderHalf, tShoulder),
        Point(hipCenterS - hipHalf, tHip),
        Point(hipCenterS + hipHalf, tHip),
        Point(Min(handMin.s, shoulderCenterS - shoulderHalf - minArmReach),
              clamp(handMin.t, tShoulder + (H * 3) \div 100, tHip + (H * 22) \div 100)),
        Point(Max(handMax.s, shoulderCenterS + shoulderHalf + minArmReach),
              clamp(handMax.t, tShoulder + (H * 3) \div 100, tHip + (H * 22) \div 100)),
        Point(footMinS, tFoot),
        Point(footMaxS, tFoot))

\* tNeck and tHeadTop from tShoulder
LayoutFromNeck(image, H, minBoneLength, shoulderCenterS, hipCenterS, shoulderHalf, hipHalf, tShoulder, tHip, tNeck, tFoot, handMin, handMax, footMinS, footMaxS) ==
    LayoutFromLevels(image, H, minBoneLength, shoulderCenterS, hipCenterS, shoulderHalf, hipHalf,
        (H * 12) \div 100, tShoulder, tHip, tNeck, Max(0, tNeck - (H * 16) \div 100), tFoot,
        handMin, handMax, footMinS, footMaxS)

\* tHip and tFoot, the half widths of the shoulders and the hips
LayoutFromHip(image, H, minBoneLength, shoulderRow, hipRow, tHip, footT, footMinS, footMaxS, handMin, handMax) ==
    LayoutFromNeck(image, H, minBoneLength, shoulderRow.meanS, hipRow.meanS,
        RoundDiv(Max(shoulderRow.width, (H * 2) \div 10) * 26, 100),
        RoundDiv(Max(hipRow.width, (H * 16) \div 100) * 22, 100),
        shoulderRow.t, tHip,
        clamp(shoulderRow.t - (H \div 10), (H * 2) \div 100, shoulderRow.t - (H * 2) \div 100),
        Max(footT, tHip + (H \div 4)),
        handMin, handMax, footMinS, footMaxS)

\* rows.filter(row => row.ratio >= 0.88)
FootRows(rows, H) ==
    LET IsFoot(row) == row.t * 100 >= 88 * H
    IN SelectSeq(rows, IsFoot)

\* rows.filter(row => row.ratio >= shoulderRow.ratio - 0.03 && row.ratio <= 0.82)
HandRows(rows, H, shoulderRow) ==
    LET IsHand(row) == /\ row.t * 100 >= shoulderRow.t * 100 - 3 * H
                       /\ row.t * 100 <= 82 * H
    IN SelectSeq(rows, IsHand)

\* the first hand row of least minS when that is left of the shoulder row
HandMin(handRows, shoulderRow) ==
    LET lowHands == {i \in 1..Len(handRows) :
                        /\ handRows[i].minS < shoulderRow.minS
                        /\ \A j \in 1..Len(handRows) : handRows[i].minS <= handRows[j].minS}
    IN IF lowHands = {} THEN Point(shoulderRow.minS, shoulderRow.t)
       ELSE LET i == CHOOSE i \in lowHands : \A j \in lowHands : i <= j
            IN Point(handRows[i].minS, handRows[i].t)

\* the first hand row of greatest maxS when that is right of the shoulder row
HandMax(handRows, shoulderRow) ==
    LET highHands == {i \in 1..Len(handRows) :
                        /\ handRows[i].maxS > shoulderRow.maxS
                        /\ \A j \in 1..Len(handRows) : handRows[i].maxS >= handRows[j].maxS}
    IN IF highHands = {} THEN Point(shoulderRow.maxS, shoulderRow.t)
       ELSE LET i == CHOOSE i \in highHands : \A j \in highHands : i <= j
            IN Point(handRows[i].maxS, handRows[i].t)

\* the feet and the hands from the foot rows and the hand rows
LayoutFromLimbRows(image, H, minBoneLength, maxT, shoulderRow, hipRow, footRows, handRows) ==
    LayoutFromHip(image, H, minBoneLength, shoulderRow, hipRow,
        Max(hipRow.t, shoulderRow.t + (H * 14) \div 100),
        weightedAverage(
            [i \in 1..Len(footRows) |-> [value |-> footRows[i].t, weight |-> footRows[i].count]],
            maxT),
        weightedAverage(
            [i \in 1..Len(footRows) |-> [value |-> footRows[i].minS, weight |-> footRows[i].count]],
            hipRow.meanS - RoundDiv(hipRow.width * 3, 10)),
        weightedAverage(
            [i \in 1..Len(footRows) |-> [value |-> footRows[i].maxS, weight |-> footRows[i].count]],
            hipRow.meanS + RoundDiv(hipRow.width * 3, 10)),
        HandMin(handRows, shoulderRow),
        HandMax(handRows, shoulderRow))

\* selectRowByWidth(rows, minPct, maxPct) ?? selectRowNearest(rows, targetPct)
SelectRow(rows, bodyHeight, minPct, maxPct, targetPct) ==
    LET byWidth == selectRowByWidth(rows, bodyHeight, minPct, maxPct)
    IN IF byWidth = NoRow THEN selectRowNearest(rows, bodyHeight, targetPct) ELSE byWidth

\* the shoulder row and the hip row chosen, the foot rows and the hand rows
LayoutFromLandmarks(image, rows, H, minBoneLength, maxT, shoulderRow, hipRow) ==
    LayoutFromLimbRows(image, H, minBoneLength, maxT, shoulderRow, hipRow,
        FootRows(rows, H), HandRows(rows, H, shoulderRow))

\* the shoulder row and the hip row, minBoneLength
LayoutFromRows(image, rows, bodyHeight, maxT) ==
    LayoutFromLandmarks(image, rows, bodyHeight * Scale, MinBoneLength(bodyHeight), maxT,
        SelectRow(rows, bodyHeight, 18, 40, 28),
        SelectRow(rows, bodyHeight, 48, 74, 60))

\* from the rows to the segments of buildLayoutFromMask, by segment key
LayoutGeometry(image) ==
    LayoutFromRows(image, BodyRows(image), BodyHeight(image), MajorSpan(image) * Scale)

----------------------------------------------------------------------------
(* Rig store: rig animations and keyframes *)

NewRigAnimation(id) ==
    [id |-> id, duration |-> 1000, fps |-> 30, loop |-> TRUE, tracks |-> <<>>]

createRigAnimation(skeletonId) ==
    /\ nextId <= MaxIds
    /\ Called("createRigAnimation", skeletonId, Null, nextId)
    /\ nextId' = nextId + 1
    /\ trackedSet([Snapshot EXCEPT
            !.skeletons =
                [i \in 1..Len(skeletons) |->
                    IF skeletons[i].id # skeletonId THEN skeletons[i]
                    ELSE [skeletons[i] EXCEPT
                            !.rigAnimations = Append(@, NewRigAnimation(nextId))]],
            !.selectedRigAnimationId = nextId,
            !.currentTime = 0])

\* tracks.findIndex(t => t.boneId === boneId), 0 for -1
TrackIndex(tracks, boneId) ==
    IF \E i \in 1..Len(tracks) : tracks[i].boneId = boneId
    THEN CHOOSE i \in 1..Len(tracks) :
            /\ tracks[i].boneId = boneId
            /\ \A j \in 1..(i - 1) : tracks[j].boneId # boneId
    ELSE 0

\* a mutation of the filter: only a keyframe at exactly the same time goes
KeepsKeyframeExact(k, time) == k.time # time

\* the filter of setKeyframe and deleteKeyframe: Math.abs(k.time - time) > 1
KeepsKeyframe(k, time) == Abs(k.time - time) > 1

FilterKeyframes(keyframes, time) ==
    LET Kept(k) == KeepsKeyframe(k, time)
    IN SelectSeq(keyframes, Kept)

\* the tracks of the matching animation after setKeyframe
SetKeyframeTracks(tracks, bone, time) ==
    LET found == TrackIndex(tracks, bone.id)
        pushed == IF found = 0
                  THEN Append(tracks, [boneId |-> bone.id, keyframes |-> <<>>])
                  ELSE tracks
        trackIndex == IF found = 0 THEN Len(pushed) ELSE found
        newKeyframe == [time |-> time, easing |-> "linear",
                        x |-> bone.x, y |-> bone.y, rotation |-> bone.rotation,
                        scaleX |-> bone.scaleX, scaleY |-> bone.scaleY]
        appended == Append(FilterKeyframes(pushed[trackIndex].keyframes, time), newKeyframe)
    IN [pushed EXCEPT ![trackIndex].keyframes = SortByTime(appended, Len(appended))]

\* rigAnimations.map(...) of setKeyframe
SetKeyframeAnimations(anims, animationId, bone, time) ==
    [a \in 1..Len(anims) |->
        IF anims[a].id # animationId THEN anims[a]
        ELSE [anims[a] EXCEPT !.tracks = SetKeyframeTracks(anims[a].tracks, bone, time)]]

setKeyframe(skeletonId, animationId, boneId, time) ==
    LET bones == BonesOf(skeletons, skeletonId)
        bone == bones[BoneIndex(bones, boneId)]
    IN
    /\ Called("setKeyframe", skeletonId, boneId, [animationId |-> animationId, time |-> time])
    /\ UNCHANGED nextId
    /\ IF SkeletonIndex(skeletons, skeletonId) = 0 \/ BoneIndex(bones, boneId) = 0
       THEN NoSet
       ELSE trackedSet([Snapshot EXCEPT
                !.skeletons =
                    [i \in 1..Len(skeletons) |->
                        IF skeletons[i].id # skeletonId THEN skeletons[i]
                        ELSE [skeletons[i] EXCEPT
                                !.rigAnimations =
                                    SetKeyframeAnimations(skeletons[i].rigAnimations,
                                                          animationId, bone, time)]]])

\* a.tracks.map(...) of deleteKeyframe: every track of the bone is filtered
DeleteKeyframeTracks(tracks, boneId, time) ==
    [t \in 1..Len(tracks) |->
        IF tracks[t].boneId # boneId THEN tracks[t]
        ELSE [tracks[t] EXCEPT !.keyframes = FilterKeyframes(tracks[t].keyframes, time)]]

\* rigAnimations.map(...) of deleteKeyframe
DeleteKeyframeAnimations(anims, animationId, boneId, time) ==
    [a \in 1..Len(anims) |->
        IF anims[a].id # animationId THEN anims[a]
        ELSE [anims[a] EXCEPT !.tracks = DeleteKeyframeTracks(anims[a].tracks, boneId, time)]]

deleteKeyframe(skeletonId, animationId, boneId, time) ==
    /\ Called("deleteKeyframe", skeletonId, boneId, [animationId |-> animationId, time |-> time])
    /\ UNCHANGED nextId
    /\ trackedSet([Snapshot EXCEPT
            !.skeletons =
                [i \in 1..Len(skeletons) |->
                    IF skeletons[i].id # skeletonId THEN skeletons[i]
                    ELSE [skeletons[i] EXCEPT
                            !.rigAnimations =
                                DeleteKeyframeAnimations(skeletons[i].rigAnimations,
                                                         animationId, boneId, time)]]])

----------------------------------------------------------------------------
(* Rig store: IK constraints and setRigTime *)

\* Math.round of a value in 1/Scale to pixels
RoundToPixel(v) == IF v = NaN THEN NaN ELSE RoundDiv(v, Scale)

\* the for loop of addIKConstraint over the first n bones of boneChain:
\* world x, y in 1/Scale and the accumulated rotation (scales are not applied)
RECURSIVE TipChain(_, _, _)
TipChain(bones, ids, n) ==
    IF n = 0 THEN [x |-> 0, y |-> 0, rotation |-> 0]
    ELSE LET before == TipChain(bones, ids, n - 1)
             b == bones[ids[n]]
         IN [x |-> FAdd(before.x, FSub(FMul(Cos(before.rotation), b.x),
                                       FMul(Sin(before.rotation), b.y))),
             y |-> FAdd(before.y, FAdd(FMul(Sin(before.rotation), b.x),
                                       FMul(Cos(before.rotation), b.y))),
             rotation |-> FAdd(before.rotation, b.rotation)]

\* the rounded world position of the tip of the target bone, (0, 0) without it
TipWorld(bones, targetBoneId) ==
    LET idx == BoneIndex(bones, targetBoneId)
        ids == ChainIndices(bones, idx)
        chain == TipChain(bones, ids, Len(ids))
    IN IF idx = 0 THEN [x |-> 0, y |-> 0]
       ELSE [x |-> RoundToPixel(FAdd(chain.x, FMul(Cos(chain.rotation), bones[idx].length))),
             y |-> RoundToPixel(FAdd(chain.y, FMul(Sin(chain.rotation), bones[idx].length)))]

NewIKConstraint(id, targetBoneId, tip) ==
    [id |-> id, targetBoneId |-> targetBoneId, chainLength |-> 2,
     targetX |-> tip.x, targetY |-> tip.y, bendPositive |-> TRUE,
     mix |-> Scale, enabled |-> TRUE]

addIKConstraint(skeletonId, targetBoneId) ==
    LET tip == TipWorld(BonesOf(skeletons, skeletonId), targetBoneId)
    IN
    /\ Called("addIKConstraint", skeletonId, targetBoneId, nextId)
    /\ nextId' = nextId + 1
    /\ IF SkeletonIndex(skeletons, skeletonId) = 0 THEN NoSet
       ELSE trackedSet([Snapshot EXCEPT
                !.skeletons =
                    [i \in 1..Len(skeletons) |->
                        IF skeletons[i].id # skeletonId THEN skeletons[i]
                        ELSE [skeletons[i] EXCEPT
                                !.ikConstraints =
                                    Append(@, NewIKConstraint(nextId, targetBoneId, tip))]],
                !.selectedIKConstraintId = nextId])

\* skeleton.ikConstraints.map(c => c.id === constraintId ? { ...c, ...updates } : c)
UpdatedConstraints(constraints, constraintId, updates) ==
    [c \in 1..Len(constraints) |->
        IF constraints[c].id = constraintId THEN Merge(constraints[c], updates)
        ELSE constraints[c]]

updateIKConstraint(skeletonId, constraintId, updates) ==
    LET idx == SkeletonIndex(skeletons, skeletonId)
        updatedConstraints ==
            UpdatedConstraints(skeletons[idx].ikConstraints, constraintId, updates)
        updatedBones ==
            applyAllIKConstraints(skeletons[idx].bones, updatedConstraints,
                                  Len(updatedConstraints))
    IN
    /\ Called("updateIKConstraint", skeletonId, Null, constraintId)
    /\ UNCHANGED nextId
    /\ IF idx = 0 THEN trackedSet(Snapshot)
       ELSE trackedSet([Snapshot EXCEPT
                !.skeletons =
                    [i \in 1..Len(skeletons) |->
                        IF skeletons[i].id # skeletonId THEN skeletons[i]
                        ELSE [skeletons[i] EXCEPT
                                !.ikConstraints = updatedConstraints,
                                !.bones = updatedBones]]])

\* skeleton.bones.map(...) of setRigTime: the keyframe values written into
\* every bone that has a track with a keyframe
KeyframePose(bones, tracks, time) ==
    [i \in 1..Len(bones) |->
        IF TrackIndex(tracks, bones[i].id) = 0 THEN bones[i]
        ELSE LET evalResult ==
                    evaluateTrackAtTime(tracks[TrackIndex(tracks, bones[i].id)].keyframes,
                                        time).result
             IN IF evalResult.kind = "null" THEN bones[i]
                ELSE Merge(bones[i], evalResult.value)]

\* if (skeleton.ikConstraints && skeleton.ikConstraints.length > 0) ...
ConstrainedPose(bones, constraints) ==
    IF Len(constraints) > 0 THEN applyAllIKConstraints(bones, constraints, Len(constraints))
    ELSE bones

\* a mutation: the constraints are applied before the keyframes are written
RigPoseIKFirst(bones, tracks, constraints, time) ==
    KeyframePose(ConstrainedPose(bones, constraints), tracks, time)

\* updatedBones of setRigTime
RigPose(bones, tracks, constraints, time) ==
    ConstrainedPose(KeyframePose(bones, tracks, time), constraints)

\* skeleton?.rigAnimations.find(a => a.id === state.selectedRigAnimationId), 0 for undefined
AnimationIndex(anims, id) ==
    IF \E a \in 1..Len(anims) : anims[a].id = id
    THEN CHOOSE a \in 1..Len(anims) :
            /\ anims[a].id = id
            /\ \A j \in 1..(a - 1) : anims[j].id # id
    ELSE 0

setRigTime(time) ==
    LET idx == SkeletonIndex(skeletons, selectedSkeletonId)
        skeleton == skeletons[idx]
        aidx == IF idx = 0 THEN 0
                ELSE AnimationIndex(skeleton.rigAnimations, selectedRigAnimationId)
        anim == skeleton.rigAnimations[aidx]
        newTime == Max(0, Min(anim.duration, time))
        updatedBones == RigPose(skeleton.bones, anim.tracks, skeleton.ikConstraints, newTime)
    IN
    /\ Called("setRigTime", selectedSkeletonId, Null, time)
    /\ UNCHANGED nextId
    /\ IF idx = 0 \/ aidx = 0 THEN trackedSet([Snapshot EXCEPT !.currentTime = time])
       ELSE trackedSet([Snapshot EXCEPT
                !.currentTime = newTime,
                !.skeletons =
                    [i \in 1..Len(skeletons) |->
                        IF skeletons[i].id = skeleton.id
                        THEN [skeletons[i] EXCEPT !.bones = updatedBones]
                        ELSE skeletons[i]]])

----------------------------------------------------------------------------
(* State of the pose functions when run as state machines *)

VARIABLES
    \* ---- applyAllIKConstraints(bones, constraints) ----
    ikBones,                 \* the argument bones
    ikConstraints,           \* the argument constraints
    ikResult,                \* let result
    ikIndex,                 \* index of the constraint the loop takes next
    ikLast,                  \* the last applyIKConstraint call: its input and origin
    \* ---- solve2BoneIK(...) ----
    solveArgs,
    solveResult,
    solveDone,
    \* ---- resolveSkeleton(skeleton) ----
    rsBones,                 \* skeleton.bones
    rsTransforms,            \* the memo map
    rsIndex,                 \* index of the bone forEach takes next
    rsComputed,              \* ids in the order their transform was computed
    rsInput,                 \* skeleton.bones as it was when resolveSkeleton was called
    \* ---- buildAutoRigFromFile: buildLayoutFromMask, convertSegmentsToBones ----
    maskImage,
    alphaThreshold,
    generateOption,          \* options.generateAttachments
    maskPc,                  \* "start", "layout", "converted", "sliced", "failed" (threw) or "done"
    layoutSegments,          \* layout.segments: key and parentKey
    layoutGeometry,          \* layout.segments: start and end, by key
    convertIndex,            \* index of the segment the second loop takes next
    autoRigBones,            \* result of convertSegmentsToBones
    emptyPieces,             \* the attachment keys for which extractMaskedPart returned null
    autoRigAttachments,      \* attachments
    autoRigWarnings,         \* warnings
    autoRigResult,           \* what buildAutoRigFromFile returned or threw
    \* ---- evaluateTrackAtTime(track.keyframes, time) and the bone update of setRigTime ----
    evKeyframes,             \* track.keyframes, the caller's array
    evInput,                 \* track.keyframes as it was when the function was called
    evTime,
    evCall,                  \* what the call returned and the return it took
    evBones,                 \* skeleton.bones
    evConstraints,           \* skeleton.ikConstraints
    evMerged,                \* updatedBones after the keyframe map
    evUpdated,               \* updatedBones after the IK constraints
    evPc,                    \* "call", "evaluated" or "done"
    \* ---- PlaybackEngine and the browser it runs in ----
    engine,                  \* the fields of one PlaybackEngine
    scheduled,               \* handles of the animation-frame callbacks that are pending
    nextHandle,              \* the handle requestAnimationFrame returns next
    now,                     \* performance.now(), in milliseconds
    calls,                   \* the callback invocations the last operation made
    engineSteps,             \* number of engine operations and frames so far
    engineOp                 \* the operation that produced this state

ikVars == <<ikBones, ikConstraints, ikResult, ikIndex, ikLast>>
solveVars == <<solveArgs, solveResult, solveDone>>
rsVars == <<rsBones, rsTransforms, rsIndex, rsComputed, rsInput>>
maskVars == <<maskImage, alphaThreshold, generateOption, maskPc, layoutSegments,
              layoutGeometry, convertIndex,
              autoRigBones, emptyPieces, autoRigAttachments, autoRigWarnings, autoRigResult>>

evVars == <<evKeyframes, evInput, evTime, evCall, evBones, evConstraints, evMerged,
            evUpdated, evPc>>

engineVars == <<engine, scheduled, nextHandle, now, calls, engineSteps, engineOp>>

vars == <<storeVars, ikVars, solveVars, rsVars, maskVars, evVars, engineVars>>

----------------------------------------------------------------------------
(* Bounds of the pose and mask inputs *)

MaxConstraints == 2      \* constraints in one applyAllIKConstraints call
MaxLength == 3           \* bone length passed to solve2BoneIK
MaxCoord == 4            \* |coordinate| of a solve2BoneIK target
MaxResolveBones == 3     \* bones of a skeleton passed to resolveSkeleton
MaxMaskSide == 12        \* width and height of a mask

Bone(id, parentId, x, y, rotation, scaleX, scaleY, length) ==
    [id |-> id, parentId |-> parentId, x |-> x, y |-> y, rotation |-> rotation,
     scaleX |-> scaleX, scaleY |-> scaleY, length |-> length]

----------------------------------------------------------------------------
(* applyAllIKConstraints as a state machine *)

\* three bones: 1 is a root, 2 its child, 3 a child of 2 or of 1
IKBoneLists ==
    {<< Bone(1, Null, 2, 1, r1, s1, 1, 3),
        Bone(2, 1, 3, 0, r2, 1, 1, 3),
        Bone(3, p3, 3, 0, 0, 1, 1, 4) >> :
        r1 \in {0, 90}, s1 \in {1, 2}, r2 \in {0, 45}, p3 \in {1, 2}}

Constraint(targetBoneId, chainLength, targetX, targetY, bendPositive, mix, enabled) ==
    [targetBoneId |-> targetBoneId, chainLength |-> chainLength,
     targetX |-> targetX, targetY |-> targetY, bendPositive |-> bendPositive,
     mix |-> mix, enabled |-> enabled]

IKConstraintChoices ==
    {Constraint(t, 2, 8, 1, TRUE, Scale, TRUE) : t \in {2, 3}}
    \cup {Constraint(t, 2, 3, 4, FALSE, 500, TRUE) : t \in {2, 3}}
    \cup {Constraint(t, 2, 2, 1, TRUE, Scale, TRUE) : t \in {2, 3}}
    \cup {Constraint(3, 2, 8, 1, TRUE, 0, TRUE),        \* mix = 0
          Constraint(3, 2, 8, 1, TRUE, Scale, FALSE),   \* disabled
          Constraint(3, 3, 8, 1, TRUE, Scale, TRUE),    \* chain of 3
          Constraint(1, 2, 8, 1, TRUE, Scale, TRUE),    \* target bone is a root
          Constraint(9, 2, 8, 1, TRUE, Scale, TRUE)}    \* no such bone

SeqsUpTo(S, n) == UNION {[1..k -> S] : k \in 0..n}

NoIKCall == [index |-> 0, outcome |-> "none", bones |-> <<>>, parentId |-> Null,
             originX |-> 0, originY |-> 0]

IKIdle ==
    /\ ikBones = <<>>
    /\ ikConstraints = <<>>
    /\ ikResult = <<>>
    /\ ikIndex = 1
    /\ ikLast = NoIKCall

IKStart ==
    /\ ikBones \in IKBoneLists
    /\ ikConstraints \in SeqsUpTo(IKConstraintChoices, MaxConstraints)
    /\ ikResult = ikBones
    /\ ikIndex = 1
    /\ ikLast = NoIKCall

\* one iteration of for (const constraint of constraints)
applyNextConstraint ==
    LET constraint == ikConstraints[ikIndex]
        outcome == IKOutcome(ikResult, constraint)
        child == BoneIndex(ikResult, constraint.targetBoneId)
    IN
    /\ ikIndex <= Len(ikConstraints)
    /\ ikResult' = applyAllStep(ikBones, ikResult, constraint)
    /\ ikIndex' = ikIndex + 1
    /\ ikLast' = [index |-> ikIndex, outcome |-> outcome, bones |-> ikResult,
                  parentId |-> IF outcome = "solve" THEN ikResult[child].parentId ELSE Null,
                  originX |-> IF outcome = "solve" THEN IKOrigin(ikResult, constraint).x ELSE 0,
                  originY |-> IF outcome = "solve" THEN IKOrigin(ikResult, constraint).y ELSE 0]
    /\ UNCHANGED <<ikBones, ikConstraints>>

----------------------------------------------------------------------------
(* solve2BoneIK as a state machine *)

NoSolveResult == [parentRotation |-> 0, childRotation |-> 0, reachable |-> TRUE,
                  clampedDistance |-> 0]

SolveArgChoices ==
    [parentLength : 0..MaxLength, childLength : 0..MaxLength,
     targetX : (0 - MaxCoord)..MaxCoord, targetY : (0 - MaxCoord)..MaxCoord,
     originX : {0, 1500}, originY : {0}, bendPositive : BOOLEAN]

SolveIdle ==
    /\ solveArgs = [parentLength |-> 0, childLength |-> 0, targetX |-> 0, targetY |-> 0,
                    originX |-> 0, originY |-> 0, bendPositive |-> TRUE]
    /\ solveResult = NoSolveResult
    /\ solveDone = FALSE

SolveStart ==
    /\ solveArgs \in SolveArgChoices
    /\ solveResult = NoSolveResult
    /\ solveDone = FALSE

solve ==
    /\ ~solveDone
    /\ solveResult' = solve2BoneIK(solveArgs.parentLength, solveArgs.childLength,
                                   solveArgs.targetX, solveArgs.targetY,
                                   solveArgs.originX, solveArgs.originY,
                                   solveArgs.bendPositive)
    /\ solveDone' = TRUE
    /\ UNCHANGED solveArgs

----------------------------------------------------------------------------
(* resolveSkeleton as a state machine *)

\* rotation, scaleX, scaleY a bone may carry
PoseChoices == {<<0, 1, 1>>, <<90, 2, 1>>, <<30, 1, 2>>}

\* bones 1..n in id order with the given parents and poses
ResolveBones(n, parent, pose) ==
    [i \in 1..n |-> Bone(i, parent[i], i + 1, i - 1, pose[i][1], pose[i][2], pose[i][3], 3)]

Reversed(s) == [i \in 1..Len(s) |-> s[Len(s) + 1 - i]]

\* the parent assignments over bones 1..n that make a forest
ForestParents(n) ==
    {p \in [1..n -> 0..n] : IsForest(ResolveBones(n, p, [i \in 1..n |-> <<0, 1, 1>>]))}

\* every forest over 1..n bones, in id order and in reverse id order (children
\* before their parents)
ResolveBoneLists(n) ==
    {IF reversed THEN Reversed(ResolveBones(n, parent, pose))
                 ELSE ResolveBones(n, parent, pose) :
        parent \in ForestParents(n), pose \in [1..n -> PoseChoices], reversed \in BOOLEAN}

ResolveIdle ==
    /\ rsBones = <<>>
    /\ rsTransforms = EmptyMap
    /\ rsIndex = 1
    /\ rsComputed = <<>>
    /\ rsInput = <<>>

ResolveStart ==
    /\ \E n \in 1..MaxResolveBones : rsBones \in ResolveBoneLists(n)
    /\ rsTransforms = EmptyMap
    /\ rsIndex = 1
    /\ rsComputed = <<>>
    /\ rsInput = rsBones

\* one iteration of skeleton.bones.forEach(b => resolveBone(b.id))
resolveNextBone ==
    LET call == resolveBone(rsBones, rsTransforms, rsBones[rsIndex].id)
    IN
    /\ rsIndex <= Len(rsBones)
    /\ rsTransforms' = call.transforms
    /\ rsComputed' = rsComputed \o call.computed
    /\ rsIndex' = rsIndex + 1
    /\ UNCHANGED <<rsBones, rsInput>>

----------------------------------------------------------------------------
(* The mask analyzer as a state machine *)

\* what lies below the top rows: nothing (a filled canvas), a short or a long
\* transparent band with opaque rows below it, or more opaque rows
BandChoices ==
    { [gap |-> 0, bottom |-> 0], [gap |-> 20, bottom |-> 5],
      [gap |-> 120, bottom |-> 76], [gap |-> 0, bottom |-> 140] }

MaskImages ==
    { [width |-> w, top |-> t, gap |-> band.gap, bottom |-> band.bottom, alpha |-> a] :
        w \in 1..MaxMaskSide, t \in 1..MaxMaskSide, band \in BandChoices,
        a \in {0, 24, 25, 255} }

\* the sets of attachment keys whose capsule holds no opaque pixel of the mask
\* (the canvas compositing of extractMaskedPart is not modelled): none, one
\* lower arm, both arms, every attachment
EmptyPieceChoices ==
    { {},
      {"lower_arm_l"},
      {"upper_arm_l", "lower_arm_l", "upper_arm_r", "lower_arm_r"},
      {AttachmentSpecs[i].key : i \in 1..Len(AttachmentSpecs)} }

NoResult == [kind |-> "none"]

MaskIdle ==
    /\ maskImage = [width |-> 1, top |-> 1, gap |-> 0, bottom |-> 0, alpha |-> 0]
    /\ alphaThreshold = 24
    /\ generateOption = TRUE
    /\ maskPc = "start"
    /\ layoutSegments = <<>>
    /\ layoutGeometry = <<>>
    /\ convertIndex = 1
    /\ autoRigBones = <<>>
    /\ emptyPieces = {}
    /\ autoRigAttachments = <<>>
    /\ autoRigWarnings = <<>>
    /\ autoRigResult = NoResult

\* segmentation is not modelled: the mask is its output and it gave no warning
MaskStart ==
    /\ maskImage \in MaskImages
    /\ alphaThreshold \in {24, 100}
    /\ generateOption \in BOOLEAN
    /\ maskPc = "start"
    /\ layoutSegments = <<>>
    /\ layoutGeometry = <<>>
    /\ convertIndex = 1
    /\ autoRigBones = <<>>
    /\ emptyPieces = {}
    /\ autoRigAttachments = <<>>
    /\ autoRigWarnings = <<>>
    /\ autoRigResult = NoResult

\* const layout = await buildLayoutFromMask(segmentedImageData, options.alphaThreshold);
\* a throw leaves buildAutoRigFromFile, which has no handler
buildLayoutFromMask ==
    /\ maskPc = "start"
    /\ IF MaskError(maskImage, alphaThreshold) # "none"
       THEN /\ maskPc' = "failed"
            /\ autoRigResult' = [kind |-> "error",
                                  message |-> MaskError(maskImage, alphaThreshold)]
            /\ UNCHANGED <<layoutSegments, layoutGeometry>>
       ELSE /\ maskPc' = "layout"
            /\ layoutSegments' = Segments
            /\ layoutGeometry' = LayoutGeometry(maskImage)
            /\ UNCHANGED autoRigResult
    /\ UNCHANGED <<maskImage, alphaThreshold, generateOption, convertIndex, autoRigBones,
                   emptyPieces, autoRigAttachments, autoRigWarnings>>

\* const bones = convertSegmentsToBones(layout.segments), one segment per step
convertSegmentsToBones ==
    /\ maskPc = "layout"
    /\ IF convertIndex <= Len(layoutSegments)
       THEN /\ autoRigBones' = ConvertSegment(autoRigBones, layoutSegments, convertIndex)
            /\ convertIndex' = convertIndex + 1
            /\ UNCHANGED maskPc
       ELSE /\ maskPc' = "converted"
            /\ UNCHANGED <<autoRigBones, convertIndex>>
    /\ UNCHANGED <<maskImage, alphaThreshold, generateOption, layoutSegments, layoutGeometry,
                   emptyPieces, autoRigAttachments, autoRigWarnings, autoRigResult>>

\* const attachments = options.generateAttachments ? await generateAttachments(...) : []
sliceAttachments ==
    /\ maskPc = "converted"
    /\ IF generateOption
       THEN \E empty \in EmptyPieceChoices :
                /\ emptyPieces' = empty
                /\ autoRigAttachments' = generateAttachments(layoutSegments, empty)
       ELSE /\ autoRigAttachments' = <<>>
            /\ UNCHANGED emptyPieces
    /\ maskPc' = "sliced"
    /\ UNCHANGED <<maskImage, alphaThreshold, generateOption, layoutSegments, layoutGeometry,
                   convertIndex, autoRigBones, autoRigWarnings, autoRigResult>>

\* the warning about no slices, and return { ..., bones, attachments, warnings }
returnResult ==
    LET warnings == IF generateOption /\ Len(autoRigAttachments) = 0
                    THEN Append(autoRigWarnings, NoSlicesWarning)
                    ELSE autoRigWarnings
    IN
    /\ maskPc = "sliced"
    /\ autoRigWarnings' = warnings
    /\ autoRigResult' = [kind |-> "result", bones |-> autoRigBones,
                          attachments |-> autoRigAttachments, warnings |-> warnings]
    /\ maskPc' = "done"
    /\ UNCHANGED <<maskImage, alphaThreshold, generateOption, layoutSegments, layoutGeometry,
                   convertIndex, autoRigBones, emptyPieces, autoRigAttachments>>

----------------------------------------------------------------------------
(* evaluateTrackAtTime and the bone update of setRigTime as a state machine *)

MaxKeyframes == 3

Keyframe(time, easing, values) ==
    [f \in {"time", "easing"} \cup DOMAIN values |->
        IF f = "time" THEN time ELSE IF f = "easing" THEN easing ELSE values[f]]

\* keyframes with all and with some of the pose fields, two pairs sharing a time;
\* between them the rotations differ by 0, 20, 160, 180 and 340 degrees, both ways
KeyframeChoices ==
    { Keyframe(0, "linear", [x |-> 0, y |-> 0, rotation |-> 170, scaleX |-> 1, scaleY |-> 1]),
      Keyframe(1000, "step", [x |-> 100, y |-> 40, rotation |-> -170, scaleX |-> 5, scaleY |-> 1]),
      Keyframe(500, "step", [x |-> 20, rotation |-> 10]),
      Keyframe(1000, "linear", [y |-> 8, rotation |-> -10]),
      Keyframe(0, "linear", [x |-> 4, y |-> 8]),
      Keyframe(1500, "linear", [rotation |-> 170]) }

TimeChoices == {-50, 0, 250, 500, 750, 1000, 1250, 1500, 2000}

\* a root and its child; the track is the child's
TrackedBoneId == 2
EvalBones ==
    << Bone(1, Null, 0, 0, 0, 1, 1, 3), Bone(TrackedBoneId, 1, 7, 7, 30, 2, 2, 3) >>

NoEvalCall == [result |-> NullResult, path |-> "none", pair |-> 0]

EvalIdle ==
    /\ evKeyframes = <<>>
    /\ evInput = <<>>
    /\ evTime = 0
    /\ evCall = NoEvalCall
    /\ evBones = <<>>
    /\ evConstraints = <<>>
    /\ evMerged = <<>>
    /\ evUpdated = <<>>
    /\ evPc = "call"

EvalStart ==
    /\ evKeyframes \in SeqsUpTo(KeyframeChoices, MaxKeyframes)
    /\ evInput = evKeyframes
    /\ evTime \in TimeChoices
    /\ evCall = NoEvalCall
    /\ evBones = EvalBones
    /\ evConstraints \in {<<>>, <<Constraint(TrackedBoneId, 2, 3, 4, TRUE, Scale, TRUE)>>}
    /\ evMerged = <<>>
    /\ evUpdated = <<>>
    /\ evPc = "call"

\* const evalResult = evaluateTrackAtTime(track.keyframes, newTime)
evaluate ==
    LET call == evaluateTrackAtTime(evKeyframes, evTime)
    IN
    /\ evPc = "call"
    /\ evKeyframes' = call.keyframes
    /\ evCall' = [result |-> call.result, path |-> call.path, pair |-> call.pair]
    /\ evPc' = "evaluated"
    /\ UNCHANGED <<evInput, evTime, evBones, evConstraints, evMerged, evUpdated>>

\* updatedBones = skeleton.bones.map(...), then the IK constraints if any
updateBones ==
    LET merged == [i \in 1..Len(evBones) |->
                      IF evBones[i].id # TrackedBoneId THEN evBones[i]
                      ELSE IF evCall.result.kind = "null" THEN evBones[i]
                      ELSE Merge(evBones[i], evCall.result.value)]
    IN
    /\ evPc = "evaluated"
    /\ evMerged' = merged
    /\ evUpdated' = IF Len(evConstraints) > 0
                    THEN applyAllIKConstraints(merged, evConstraints, Len(evConstraints))
                    ELSE merged
    /\ evPc' = "done"
    /\ UNCHANGED <<evKeyframes, evInput, evTime, evCall, evBones, evConstraints>>

----------------------------------------------------------------------------
(* The rig store as a state machine *)

\* the values the state creator and withHistory start from
StoreCreated ==
    /\ skeletons = <<>>
    /\ selectedSkeletonId = Null
    /\ selectedBoneId = Null
    /\ selectedIKConstraintId = Null
    /\ selectedRigAnimationId = Null
    /\ currentTime = 0
    /\ canUndo = FALSE
    /\ canRedo = FALSE
    /\ pastStates = <<>>
    /\ futureStates = <<>>
    /\ nextId = 1
    /\ steps = 0
    /\ lastOp = [op |-> "init", skeletonId |-> Null, boneId |-> Null, arg |-> Null]

\* the rig store: withHistory without options
StoreInit == StoreCreated /\ historyLimit = MAX_HISTORY

MaxLimit == 3          \* the limit option of withHistory is 0..MaxLimit

\* withHistory(stateCreator, { limit })
HistoryStart == StoreCreated /\ historyLimit \in 0..MaxLimit

MaxKeyTime == 3        \* keyframe times are 0..MaxKeyTime milliseconds
MaxTrackSteps == 4     \* keyframe calls on the prepared track in one behaviour

KeyTimes == 0..MaxKeyTime

AnimationIds(s) ==
    LET idx == SkeletonIndex(skeletons, s)
    IN IF idx = 0 THEN {}
       ELSE {skeletons[idx].rigAnimations[a].id : a \in 1..Len(skeletons[idx].rigAnimations)}

\* the store after createSkeleton(), addBone(1, null, {x: 10}) and
\* createRigAnimation(1): one bone, one animation without tracks
TrackStart ==
    LET empty == [skeletons |-> <<>>, selectedSkeletonId |-> Null, selectedBoneId |-> Null,
                  selectedIKConstraintId |-> Null, selectedRigAnimationId |-> Null,
                  currentTime |-> 0]
        created == [empty EXCEPT !.skeletons = <<NewSkeleton(1)>>, !.selectedSkeletonId = 1]
        added == [created EXCEPT
                    !.skeletons[1].bones = <<NewBone(2, Null, [x |-> 10])>>,
                    !.selectedBoneId = 2]
        animated == [added EXCEPT
                        !.skeletons[1].rigAnimations = <<NewRigAnimation(3)>>,
                        !.selectedRigAnimationId = 3]
    IN
    /\ skeletons = animated.skeletons
    /\ selectedSkeletonId = animated.selectedSkeletonId
    /\ selectedBoneId = animated.selectedBoneId
    /\ selectedIKConstraintId = animated.selectedIKConstraintId
    /\ selectedRigAnimationId = animated.selectedRigAnimationId
    /\ currentTime = animated.currentTime
    /\ canUndo = TRUE
    /\ canRedo = FALSE
    /\ pastStates = <<empty, created, added>>
    /\ futureStates = <<>>
    /\ historyLimit = MAX_HISTORY
    /\ nextId = 4
    /\ steps = 0
    /\ lastOp = [op |-> "createRigAnimation", skeletonId |-> 1, boneId |-> Null, arg |-> 3]

MaxRigSteps == 3       \* store calls on the prepared rig in one behaviour

\* the keyframe times and the query times of the calls on the prepared rig
RigKeyTimes == {0, 2}
RigTimes == {1, 2000}

\* the updates of updateIKConstraint: the target moved, the target moved with
\* half the mix, the constraint disabled
RigUpdates ==
    { [targetX |-> 3, targetY |-> 4],
      [targetX |-> 3, targetY |-> 4, mix |-> 500],
      [enabled |-> FALSE] }

ConstraintIds(s) ==
    LET idx == SkeletonIndex(skeletons, s)
    IN IF idx = 0 THEN {}
       ELSE {skeletons[idx].ikConstraints[c].id : c \in 1..Len(skeletons[idx].ikConstraints)}

\* the store after createSkeleton(), addBone(1, null, {x: 2, y: 1, length: 3}),
\* addBone(1, 2, {x: 3, length: 3}), createRigAnimation(1) and
\* addIKConstraint(1, 3): a root, its child, an animation without tracks and a
\* constraint whose target is the tip of the child
RigStart ==
    LET empty == [skeletons |-> <<>>, selectedSkeletonId |-> Null, selectedBoneId |-> Null,
                  selectedIKConstraintId |-> Null, selectedRigAnimationId |-> Null,
                  currentTime |-> 0]
        created == [empty EXCEPT !.skeletons = <<NewSkeleton(1)>>, !.selectedSkeletonId = 1]
        root == NewBone(2, Null, [x |-> 2, y |-> 1, length |-> 3])
        child == NewBone(3, 2, [x |-> 3, length |-> 3])
        addedRoot == [created EXCEPT !.skeletons[1].bones = <<root>>, !.selectedBoneId = 2]
        addedChild == [addedRoot EXCEPT
                        !.skeletons[1].bones = <<root, child>>, !.selectedBoneId = 3]
        animated == [addedChild EXCEPT
                        !.skeletons[1].rigAnimations = <<NewRigAnimation(4)>>,
                        !.selectedRigAnimationId = 4]
        constrained == [animated EXCEPT
                        !.skeletons[1].ikConstraints =
                            <<NewIKConstraint(5, 3, TipWorld(<<root, child>>, 3))>>,
                        !.selectedIKConstraintId = 5]
    IN
    /\ skeletons = constrained.skeletons
    /\ selectedSkeletonId = constrained.selectedSkeletonId
    /\ selectedBoneId = constrained.selectedBoneId
    /\ selectedIKConstraintId = constrained.selectedIKConstraintId
    /\ selectedRigAnimationId = constrained.selectedRigAnimationId
    /\ currentTime = constrained.currentTime
    /\ canUndo = TRUE
    /\ canRedo = FALSE
    /\ pastStates = <<empty, created, addedRoot, addedChild, animated>>
    /\ futureStates = <<>>
    /\ historyLimit = MAX_HISTORY
    /\ nextId = 6
    /\ steps = 0
    /\ lastOp = [op |-> "addIKConstraint", skeletonId |-> 1, boneId |-> 3, arg |-> 5]

SkeletonArgs == SkeletonIds \cup {NoSuchId}

\* the updates the properties panel and a direct caller of updateBone pass
UpdateArgs(bones) ==
    {[rotation |-> 90]} \cup {[parentId |-> p] : p \in BoneIds(bones)}

----------------------------------------------------------------------------
(* PlaybackEngine: the frame loop and the time loop on requestAnimationFrame *)

NoCallback == "null"
FrameCallback == "frameCallback"     \* the function handed to play
TimeCallback == "timeCallback"       \* the function handed to playRig

MaxFrames == 2           \* frameCount handed to configure is 1..MaxFrames
MaxEngineSteps == 6      \* engine calls, frames and clock advances in one behaviour

\* the field initialisers of the class
EngineCreated ==
    [animationId |-> Null, lastTime |-> 0, accumulator |-> 0,
     fps |-> 12, frameCount |-> 0, currentFrame |-> 0,
     duration |-> 0, currentTime |-> 0,
     loop |-> TRUE, mode |-> "frame",
     frameCallback |-> NoCallback, timeCallback |-> NoCallback,
     isPlaying |-> FALSE]

EngineIdle ==
    /\ engine = EngineCreated
    /\ scheduled = {}
    /\ nextHandle = 1
    /\ now = 0
    /\ calls = <<>>
    /\ engineSteps = 0
    /\ engineOp = "new"

\* the engine and the browser's callback queue as one method call sees them;
\* returned is set by a return inside tick that skips requestAnimationFrame
World ==
    [engine |-> engine, scheduled |-> scheduled, nextHandle |-> nextHandle,
     calls |-> <<>>, returned |-> FALSE]

\* a mutation: stop that forgets the flag
stopKeepsPlaying(w) ==
    [w EXCEPT !.engine = [@ EXCEPT !.animationId = Null,
                                   !.frameCallback = NoCallback,
                                   !.timeCallback = NoCallback],
              !.scheduled = @ \ {w.engine.animationId}]

\* stop(): cancelAnimationFrame removes the handle from the queue, if it is there
stop(w) ==
    [w EXCEPT !.engine = [@ EXCEPT !.isPlaying = FALSE,
                                   !.animationId = Null,
                                   !.frameCallback = NoCallback,
                                   !.timeCallback = NoCallback],
              !.scheduled = IF w.engine.animationId # Null
                            THEN @ \ {w.engine.animationId} ELSE @]

\* this.animationId = requestAnimationFrame(this.tick)
requestAnimationFrame(w) ==
    [w EXCEPT !.engine.animationId = w.nextHandle,
              !.scheduled = @ \cup {w.nextHandle},
              !.nextHandle = @ + 1]

\* this.frameCallback?.(this.currentFrame)
invokeFrameCallback(w) ==
    IF w.engine.frameCallback = NoCallback THEN w
    ELSE [w EXCEPT !.calls = Append(@, [kind |-> "frame", value |-> w.engine.currentFrame])]

\* this.timeCallback?.(this.currentTime)
invokeTimeCallback(w) ==
    IF w.engine.timeCallback = NoCallback THEN w
    ELSE [w EXCEPT !.calls = Append(@, [kind |-> "time", value |-> w.engine.currentTime])]

\* const frameInterval = 1000 / this.fps; the fps values of the model divide 1000
frameInterval(e) == 1000 \div e.fps

\* a mutation: the end test one frame late
PastLastFrame(frame, count) == frame > count

\* this.currentFrame >= this.frameCount
EndOfFrames(frame, count) == frame >= count

\* this.accumulator -= frameInterval; this.currentFrame++
advanceFrame(w) ==
    [w EXCEPT !.engine.accumulator = @ - frameInterval(w.engine),
              !.engine.currentFrame = @ + 1]

\* the rest of one iteration of the while loop, after the increment
frameAdvanced(w) ==
    IF EndOfFrames(w.engine.currentFrame, w.engine.frameCount)
    THEN IF w.engine.loop
         THEN invokeFrameCallback([w EXCEPT !.engine.currentFrame = 0])
         ELSE [stop([w EXCEPT !.engine.currentFrame = w.engine.frameCount - 1])
                   EXCEPT !.returned = TRUE]
    ELSE invokeFrameCallback(w)

\* while (this.accumulator >= frameInterval) { ... }
RECURSIVE whileAccumulated(_)
whileAccumulated(w) ==
    IF w.returned \/ w.engine.accumulator < frameInterval(w.engine) THEN w
    ELSE whileAccumulated(frameAdvanced(advanceFrame(w)))

\* the frame branch of tick
tickFrame(w, delta) ==
    whileAccumulated([w EXCEPT !.engine.accumulator = @ + delta])

\* the time branch of tick once currentTime has been advanced
timeAdvanced(w) ==
    IF w.engine.currentTime >= w.engine.duration
    THEN IF w.engine.loop
         THEN invokeTimeCallback(
                  [w EXCEPT !.engine.currentTime = @ % w.engine.duration])
         ELSE [invokeTimeCallback(
                   stop([w EXCEPT !.engine.currentTime = w.engine.duration]))
                   EXCEPT !.returned = TRUE]
    ELSE invokeTimeCallback(w)

\* the time branch of tick
tickTime(w, delta) ==
    timeAdvanced([w EXCEPT !.engine.currentTime = @ + delta])

\* the two branches of tick, lastTime already set
tickMode(w, delta) ==
    IF w.engine.mode = "frame" THEN tickFrame(w, delta) ELSE tickTime(w, delta)

\* the end of tick: a new request unless a branch returned
tickEnd(w) == IF w.returned THEN w ELSE requestAnimationFrame(w)

\* tick, called at time t
tick(w, t) ==
    IF ~w.engine.isPlaying THEN w
    ELSE tickEnd(tickMode([w EXCEPT !.engine.lastTime = t], t - w.engine.lastTime))

\* startLoop at time t; the two reads of performance.now() give the same value
startLoop(w, t) ==
    tick([w EXCEPT !.engine.isPlaying = TRUE,
                   !.engine.accumulator = 0,
                   !.engine.lastTime = t], t)

\* the state a method call or a frame leaves
EngineCalled(w, op) ==
    /\ engine' = w.engine
    /\ scheduled' = w.scheduled
    /\ nextHandle' = w.nextHandle
    /\ calls' = w.calls
    /\ engineSteps' = engineSteps + 1
    /\ engineOp' = op
    /\ UNCHANGED now

configure(fps, frameCount, loop, startFrame) ==
    EngineCalled([World EXCEPT !.engine.mode = "frame",
                               !.engine.fps = Max(1, fps),
                               !.engine.frameCount = frameCount,
                               !.engine.loop = loop,
                               !.engine.currentFrame = startFrame], "configure")

configureRig(duration, loop, startTime) ==
    EngineCalled([World EXCEPT !.engine.mode = "time",
                               !.engine.duration = Max(1, duration),
                               !.engine.loop = loop,
                               !.engine.currentTime = startTime], "configureRig")

play ==
    EngineCalled(IF engine.frameCount < 1 THEN World
                 ELSE startLoop([World EXCEPT !.engine.mode = "frame",
                                              !.engine.frameCallback = FrameCallback],
                                now), "play")

playRig ==
    EngineCalled(IF engine.duration <= 0 THEN World
                 ELSE startLoop([World EXCEPT !.engine.mode = "time",
                                              !.engine.timeCallback = TimeCallback],
                                now), "playRig")

stopEngine == EngineCalled(stop(World), "stop")

\* the browser runs the pending callback with handle h
animationFrame(h) ==
    /\ h \in scheduled
    /\ EngineCalled(tick([World EXCEPT !.scheduled = @ \ {h}], now), "frame")

\* time passes
elapse(ms) ==
    /\ now' = now + ms
    /\ calls' = <<>>
    /\ engineSteps' = engineSteps + 1
    /\ engineOp' = "elapse"
    /\ UNCHANGED <<engine, scheduled, nextHandle>>

FpsArgs == {0, 20}
DurationArgs == {0, 100}
StartTimes == {0, 50}
ElapsedTimes == {60, 1000}
otherVars == <<storeVars, ikVars, solveVars, rsVars, maskVars, evVars>>

----------------------------------------------------------------------------
(* Specifications: the rig store, and each pose function on its inputs *)

Init == StoreInit /\ IKIdle /\ SolveIdle /\ ResolveIdle /\ MaskIdle /\ EvalIdle /\ EngineIdle
poseVars == <<ikVars, solveVars, rsVars, maskVars, evVars, engineVars>>

\* one call of a store action, with every argument the state offers
Next ==
    \/ createSkeleton /\ UNCHANGED poseVars
    \/ (\E id \in SkeletonArgs : duplicateSkeleton(id)) /\ UNCHANGED poseVars
    \/ (\E s \in SkeletonIds : \E p \in BoneIds(BonesOf(skeletons, s)) \cup {Null} :
            addBone(s, p, [x |-> 10])) /\ UNCHANGED poseVars
    \/ (\E s \in SkeletonIds : \E b \in BoneIds(BonesOf(skeletons, s)) :
            \E u \in UpdateArgs(BonesOf(skeletons, s)) : updateBone(s, b, u))
       /\ UNCHANGED poseVars
    \/ (\E s \in SkeletonIds : \E b \in BoneIds(BonesOf(skeletons, s)) :
            removeBone(s, b)) /\ UNCHANGED poseVars
    \/ (\E s \in SkeletonArgs : \E b \in BoneIds(BonesOf(skeletons, s)) \cup {NoSuchId} :
            \E p \in BoneIds(BonesOf(skeletons, s)) \cup {Null} : reparentBone(s, b, p))
       /\ UNCHANGED poseVars
    \/ (\E s \in SkeletonArgs : createRigAnimation(s)) /\ UNCHANGED poseVars
    \/ (\E s \in SkeletonArgs : \E a \in AnimationIds(s) :
            \E b \in BoneIds(BonesOf(skeletons, s)) \cup {NoSuchId} :
                \E t \in KeyTimes : setKeyframe(s, a, b, t)) /\ UNCHANGED poseVars
    \/ (\E s \in SkeletonIds : \E a \in AnimationIds(s) :
            \E b \in BoneIds(BonesOf(skeletons, s)) :
                \E t \in KeyTimes : deleteKeyframe(s, a, b, t)) /\ UNCHANGED poseVars
    \/ undo /\ UNCHANGED poseVars
    \/ redo /\ UNCHANGED poseVars
Spec == Init /\ [][Next]_vars

\* keyframe calls on a track that starts empty, the bone moved in between
TrackInit == TrackStart /\ IKIdle /\ SolveIdle /\ ResolveIdle /\ MaskIdle /\ EvalIdle /\ EngineIdle
TrackNext ==
    \/ (/\ steps < MaxTrackSteps
        /\ \E s \in SkeletonIds : \E a \in AnimationIds(s) :
              \E b \in BoneIds(BonesOf(skeletons, s)) :
                  \E t \in KeyTimes : setKeyframe(s, a, b, t)) /\ UNCHANGED poseVars
    \/ (/\ steps < MaxTrackSteps
        /\ \E s \in SkeletonIds : \E a \in AnimationIds(s) :
              \E b \in BoneIds(BonesOf(skeletons, s)) :
                  \E t \in KeyTimes : deleteKeyframe(s, a, b, t)) /\ UNCHANGED poseVars
    \/ (/\ steps < MaxTrackSteps
        /\ \E s \in SkeletonIds : \E b \in BoneIds(BonesOf(skeletons, s)) :
              updateBone(s, b, [rotation |-> 90])) /\ UNCHANGED poseVars
SpecTrack == TrackInit /\ [][TrackNext]_vars

\* poses of a rig that has a constraint: keyframes, constraint updates, query
\* times and bone removal
RigInit == RigStart /\ IKIdle /\ SolveIdle /\ ResolveIdle /\ MaskIdle /\ EvalIdle /\ EngineIdle
RigNext ==
    \/ (/\ steps < MaxRigSteps
        /\ \E s \in SkeletonIds : \E b \in BoneIds(BonesOf(skeletons, s)) :
              /\ Cardinality(ConstraintIds(s)) < MaxConstraints
              /\ addIKConstraint(s, b)) /\ UNCHANGED poseVars
    \/ (/\ steps < MaxRigSteps
        /\ \E s \in SkeletonIds : \E c \in ConstraintIds(s) : \E u \in RigUpdates :
              updateIKConstraint(s, c, u)) /\ UNCHANGED poseVars
    \/ (/\ steps < MaxRigSteps
        /\ \E s \in SkeletonIds : \E a \in AnimationIds(s) :
              \E b \in BoneIds(BonesOf(skeletons, s)) :
                  \E t \in RigKeyTimes : setKeyframe(s, a, b, t)) /\ UNCHANGED poseVars
    \/ (/\ steps < MaxRigSteps
        /\ \E t \in RigTimes : setRigTime(t)) /\ UNCHANGED poseVars
    \/ (/\ steps < MaxRigSteps
        /\ \E s \in SkeletonIds : \E b \in BoneIds(BonesOf(skeletons, s)) :
              removeBone(s, b)) /\ UNCHANGED poseVars
SpecRig == RigInit /\ [][RigNext]_vars

\* tracked sets, undo and redo on a store whose history limit is small
HistoryInit == HistoryStart /\ IKIdle /\ SolveIdle /\ ResolveIdle /\ MaskIdle /\ EvalIdle /\ EngineIdle
HistoryNext ==
    \/ createSkeleton /\ UNCHANGED poseVars
    \/ (\E time \in RigTimes : setRigTime(time)) /\ UNCHANGED poseVars
    \/ undo /\ UNCHANGED poseVars
    \/ redo /\ UNCHANGED poseVars
SpecHistory == HistoryInit /\ [][HistoryNext]_vars

IKInit == StoreInit /\ IKStart /\ SolveIdle /\ ResolveIdle /\ MaskIdle /\ EvalIdle /\ EngineIdle
IKNext == applyNextConstraint /\ UNCHANGED <<storeVars, solveVars, rsVars, maskVars, evVars, engineVars>>
SpecIK == IKInit /\ [][IKNext]_vars

SolveInit == StoreInit /\ IKIdle /\ SolveStart /\ ResolveIdle /\ MaskIdle /\ EvalIdle /\ EngineIdle
SolveNext == solve /\ UNCHANGED <<storeVars, ikVars, rsVars, maskVars, evVars, engineVars>>
SpecSolve == SolveInit /\ [][SolveNext]_vars

ResolveInit == StoreInit /\ IKIdle /\ SolveIdle /\ ResolveStart /\ MaskIdle /\ EvalIdle /\ EngineIdle
ResolveNext == resolveNextBone /\ UNCHANGED <<storeVars, ikVars, solveVars, maskVars, evVars, engineVars>>
SpecResolve == ResolveInit /\ [][ResolveNext]_vars

EvalInit == StoreInit /\ IKIdle /\ SolveIdle /\ ResolveIdle /\ MaskIdle /\ EvalStart /\ EngineIdle
EvalNext ==
    \/ evaluate /\ UNCHANGED <<storeVars, ikVars, solveVars, rsVars, maskVars, engineVars>>
    \/ updateBones /\ UNCHANGED <<storeVars, ikVars, solveVars, rsVars, maskVars, engineVars>>
SpecEval == EvalInit /\ [][EvalNext]_vars

MaskInit == StoreInit /\ IKIdle /\ SolveIdle /\ ResolveIdle /\ MaskStart /\ EvalIdle /\ EngineIdle
MaskNext ==
    \/ buildLayoutFromMask /\ UNCHANGED <<storeVars, ikVars, solveVars, rsVars, evVars, engineVars>>
    \/ convertSegmentsToBones /\ UNCHANGED <<storeVars, ikVars, solveVars, rsVars, evVars, engineVars>>
    \/ sliceAttachments /\ UNCHANGED <<storeVars, ikVars, solveVars, rsVars, evVars, engineVars>>
    \/ returnResult /\ UNCHANGED <<storeVars, ikVars, solveVars, rsVars, evVars, engineVars>>
SpecMask == MaskInit /\ [][MaskNext]_vars

\* one engine: configuration, play and stop calls in any order, the pending
\* callbacks run in any order, the clock advancing in between
PlaybackInit == StoreInit /\ IKIdle /\ SolveIdle /\ ResolveIdle /\ MaskIdle /\ EvalIdle /\ EngineIdle
PlaybackNext ==
    \/ (/\ engineSteps < MaxEngineSteps
        /\ \E fps \in FpsArgs : \E frameCount \in 1..MaxFrames : \E loop \in BOOLEAN :
              \E startFrame \in {0, frameCount - 1} :
                  configure(fps, frameCount, loop, startFrame)) /\ UNCHANGED otherVars
    \/ (/\ engineSteps < MaxEngineSteps
        /\ \E duration \in DurationArgs : \E loop \in BOOLEAN : \E startTime \in StartTimes :
              configureRig(duration, loop, startTime)) /\ UNCHANGED otherVars
    \/ (engineSteps < MaxEngineSteps /\ play) /\ UNCHANGED otherVars
    \/ (engineSteps < MaxEngineSteps /\ playRig) /\ UNCHANGED otherVars
    \/ (engineSteps < MaxEngineSteps /\ stopEngine) /\ UNCHANGED otherVars
    \/ (engineSteps < MaxEngineSteps /\ \E h \in scheduled : animationFrame(h))
       /\ UNCHANGED otherVars
    \/ (engineSteps < MaxEngineSteps /\ \E ms \in ElapsedTimes : elapse(ms))
       /\ UNCHANGED otherVars
SpecPlayback == PlaybackInit /\ [][PlaybackNext]_vars

----------------------------------------------------------------------------
(* Properties of the rig store *)

\* C2: reparentBone(skeletonId, boneId, newParentId) with newParentId equal to
\* boneId or to a transitive descendant of boneId is rejected: the skeleton
\* list (every bone's parentId and every other field) is the same after the
\* call as before it.
C2_ReparentOntoDescendantRejected ==
    [][ ( /\ steps' = steps + 1
          /\ lastOp'.op = "reparentBone"
          /\ lastOp'.arg \in SelfOrDescendants(BonesOf(skeletons, lastOp'.skeletonId),
                                               {lastOp'.boneId}) )
        => skeletons' = skeletons ]_vars

\* C2 witness: a reparent onto a grandchild (a descendant that is not a child)
\* of the moved bone has been called on a forest-shaped skeleton.
C2_Witness ==
    /\ lastOp.op = "reparentBone"
    /\ LET bones == BonesOf(skeletons, lastOp.skeletonId)
       IN /\ IsForest(bones)
          /\ BoneIndex(bones, lastOp.boneId) # 0
          /\ lastOp.arg # Null
          /\ lastOp.arg # lastOp.boneId
          /\ lastOp.arg \in SelfOrDescendants(bones, {lastOp.boneId})
          /\ bones[BoneIndex(bones, lastOp.arg)].parentId # lastOp.boneId

\* C3 (as claimed): in every reachable state of the store the parentId graph
\* of each skeleton is a forest.
C3_ParentGraphIsForest ==
    \A i \in 1..Len(skeletons) : IsForest(skeletons[i].bones)

----------------------------------------------------------------------------
(* Properties of the mask analyzer *)

KeyPairs(bones) == {<<bones[i].key, bones[i].parentKey>> : i \in 1..Len(bones)}

\* the parent of every bone but the upper arms, as spec 4.4 and the code agree
TopologyWithoutArms ==
    { <<"root", "null">>, <<"spine", "root">>, <<"head", "spine">>,
      <<"lower_arm_l", "upper_arm_l">>, <<"lower_arm_r", "upper_arm_r">>,
      <<"upper_leg_l", "root">>, <<"lower_leg_l", "upper_leg_l">>,
      <<"upper_leg_r", "root">>, <<"lower_leg_r", "upper_leg_r">> }

\* C1 (as claimed): the output for a valid mask has exactly the 11 keys, and
\* its parentKey graph has root above spine, the upper arms and the upper legs.
C1_TopologyAsClaimed ==
    maskPc = "done" =>
        /\ Len(autoRigBones) = 11
        /\ KeyPairs(autoRigBones) =
              TopologyWithoutArms \cup {<<"upper_arm_l", "root">>, <<"upper_arm_r", "root">>}

\* C1 (amended): the output for a valid mask has exactly the 11 keys; root has
\* no parent, spine's parent is root, head's parent is spine, the upper arms
\* have parent spine, the upper legs have parent root, and each lower bone has
\* the matching upper bone as parent.
C1_Topology ==
    maskPc = "done" =>
        /\ Len(autoRigBones) = 11
        /\ KeyPairs(autoRigBones) =
              TopologyWithoutArms \cup {<<"upper_arm_l", "spine">>, <<"upper_arm_r", "spine">>}

\* C1 witness: a mask passed validation and its segments were converted.
C1_Witness ==
    /\ maskPc = "done"
    /\ OpaqueCount(maskImage, alphaThreshold) >= 100
    /\ PopulatedRows(maskImage) >= 10
    /\ Len(autoRigBones) = 11

----------------------------------------------------------------------------
(* Properties of the IK solver *)

Inert(constraint) == constraint.mix = 0 \/ ~constraint.enabled

\* C4: when every constraint of the list has mix = 0 or is disabled, the bone
\* list held by applyAllIKConstraints equals its input in every field of every
\* bone, at every point of the loop and at its return.
C4_ZeroMixIsNoOp ==
    (\A i \in 1..Len(ikConstraints) : Inert(ikConstraints[i])) => ikResult = ikBones

\* C4 witness: the loop has returned over a list holding an enabled mix = 0
\* constraint that would move bones at full mix, and a disabled constraint
\* with mix > 0.
C4_Witness ==
    /\ ikIndex = Len(ikConstraints) + 1
    /\ \A i \in 1..Len(ikConstraints) : Inert(ikConstraints[i])
    /\ \E i \in 1..Len(ikConstraints) :
            /\ ikConstraints[i].enabled
            /\ ikConstraints[i].mix = 0
            /\ applyIKConstraint(ikBones, [ikConstraints[i] EXCEPT !.mix = Scale]) # ikBones
    /\ \E i \in 1..Len(ikConstraints) :
            ~ikConstraints[i].enabled /\ ikConstraints[i].mix > 0

HasChainParent(bones, boneId) ==
    /\ BoneIndex(bones, boneId) # 0
    /\ bones[BoneIndex(bones, boneId)].parentId # Null
    /\ BoneIndex(bones, bones[BoneIndex(bones, boneId)].parentId) # 0

\* C5: an enabled constraint with mix > 0 whose chainLength is not 2, or whose
\* target bone does not exist or has no parent, is rejected: the bone list
\* applyIKConstraint returns equals the one it was given.
C5_UnsupportedChainRejected ==
    ikLast.index > 0 =>
        LET c == ikConstraints[ikLast.index]
        IN ( /\ c.enabled
             /\ c.mix > 0
             /\ (c.chainLength # 2 \/ ~HasChainParent(ikLast.bones, c.targetBoneId)) )
           => ikResult = ikLast.bones

\* C5 witness: an enabled chain-of-3 constraint at full mix was applied to a
\* bone with a parent, where the same constraint with chainLength 2 moves bones.
C5_Witness ==
    /\ ikLast.index > 0
    /\ LET c == ikConstraints[ikLast.index]
       IN /\ c.enabled
          /\ c.mix > 0
          /\ c.chainLength = 3
          /\ HasChainParent(ikLast.bones, c.targetBoneId)
          /\ applyIKConstraint(ikLast.bones, [c EXCEPT !.chainLength = 2]) # ikLast.bones

\* applyIKConstraint(... applyIKConstraint(applyIKConstraint(bones, c1), c2) ..., cn)
RECURSIVE NestedApply(_, _, _)
NestedApply(bones, constraints, n) ==
    IF n = 0 THEN bones
    ELSE applyIKConstraint(NestedApply(bones, constraints, n - 1), constraints[n])

\* C6: after n iterations the bone list held by applyAllIKConstraints is the
\* nested application of the first n constraints in list order, and the bones
\* each applyIKConstraint call was given are those left by all earlier
\* constraints.
C6_AppliedInListOrder ==
    /\ ikResult = NestedApply(ikBones, ikConstraints, ikIndex - 1)
    /\ ikLast.index > 0 =>
            ikLast.bones = NestedApply(ikBones, ikConstraints, ikLast.index - 1)

\* C6 witness: two constraints were solved, the second from an origin that the
\* first one moved, and the result differs from both constraints applied in
\* the other order and from the second applied to the input.
C6_Witness ==
    /\ Len(ikConstraints) = 2
    /\ ikIndex = 3
    /\ IKOutcome(ikBones, ikConstraints[1]) = "solve"
    /\ ikLast.outcome = "solve"
    /\ IKOutcome(ikBones, ikConstraints[2]) = "solve"
    /\ IKOrigin(ikBones, ikConstraints[2]) # IKOrigin(ikLast.bones, ikConstraints[2])
    /\ ikResult # applyIKConstraint(ikBones, ikConstraints[2])
    /\ ikResult # applyIKConstraint(applyIKConstraint(ikBones, ikConstraints[2]),
                                    ikConstraints[1])

\* C7 (as claimed): the origin applyIKConstraint passes to solve2BoneIK is the
\* world position resolveSkeleton computes for the chain's parent bone on the
\* same bone list.
C7_OriginIsResolverPosition ==
    ikLast.outcome = "solve" =>
        LET world == resolveSkeleton(ikLast.bones)[ikLast.parentId]
        IN ikLast.originX = world.x /\ ikLast.originY = world.y

\* squared origin-to-target distance of the solve2BoneIK call, in 1/Scale^2
ArgDistanceSquared ==
    (solveArgs.targetX * Scale - solveArgs.originX) * (solveArgs.targetX * Scale - solveArgs.originX)
    + (solveArgs.targetY * Scale - solveArgs.originY) * (solveArgs.targetY * Scale - solveArgs.originY)

ArgMaxReach == (solveArgs.parentLength + solveArgs.childLength) * Scale
ArgMinReach == Abs(solveArgs.parentLength - solveArgs.childLength) * Scale

\* C8: solve2BoneIK returns reachable = true exactly when |a - b| <= d <= a + b
\* (bounds included); when d > a + b the distance used for the law of cosines
\* is a + b - epsilon, and when d < |a - b| it is |a - b| + epsilon.
C8_ReachableIffWithinAnnulus ==
    solveDone =>
        /\ solveResult.reachable <=>
              ( /\ ArgMinReach * ArgMinReach <= ArgDistanceSquared
                /\ ArgDistanceSquared <= ArgMaxReach * ArgMaxReach )
        /\ ArgDistanceSquared > ArgMaxReach * ArgMaxReach
              => solveResult.clampedDistance = ArgMaxReach - 1
        /\ ArgDistanceSquared < ArgMinReach * ArgMinReach
              => solveResult.clampedDistance = ArgMinReach + 1

\* C8 witness: equal non-zero lengths and a target exactly at distance a + b
\* were solved and reported reachable.
C8_Witness ==
    /\ solveDone
    /\ solveArgs.parentLength = solveArgs.childLength
    /\ solveArgs.parentLength > 0
    /\ ArgDistanceSquared = ArgMaxReach * ArgMaxReach
    /\ solveResult.reachable

\* C9 (as claimed): solve2BoneIK returns finite parentRotation and
\* childRotation for every non-negative lengths, origin and target.
C9_RotationsFinite ==
    solveDone => IsFinite(solveResult.parentRotation) /\ IsFinite(solveResult.childRotation)

----------------------------------------------------------------------------
(* Properties of the transform resolver *)

\* the world transform of bones[idx] as the composition of the local
\* transforms from its root down to it (positions in 1/Scale)
RECURSIVE ComposedWorld(_, _)
ComposedWorld(bones, idx) ==
    LET b == bones[idx]
    IN IF b.parentId = Null
       THEN [x |-> b.x * Scale, y |-> b.y * Scale, rotation |-> b.rotation,
             scaleX |-> b.scaleX, scaleY |-> b.scaleY]
       ELSE LET p == ComposedWorld(bones, BoneIndex(bones, b.parentId))
            IN [x |-> p.x + b.x * p.scaleX * Cos(p.rotation) - b.y * p.scaleY * Sin(p.rotation),
                y |-> p.y + b.x * p.scaleX * Sin(p.rotation) + b.y * p.scaleY * Cos(p.rotation),
                rotation |-> p.rotation + b.rotation,
                scaleX |-> p.scaleX * b.scaleX,
                scaleY |-> p.scaleY * b.scaleY]

IsPlain(b) == b.rotation = 0 /\ b.scaleX = 1 /\ b.scaleY = 1

\* C10: every transform resolveSkeleton stores is the composition of the local
\* transforms along the bone's root-to-bone chain (a root gets its local
\* transform); and in a chain A -> B -> C with all rotations 0 and scales 1,
\* C's world position is the sum of the three local positions.
C10_WorldIsComposition ==
    \A i \in 1..Len(rsBones) :
        rsBones[i].id \in DOMAIN rsTransforms =>
            /\ rsTransforms[rsBones[i].id] = ComposedWorld(rsBones, i)
            /\ \A j, k \in 1..Len(rsBones) :
                  ( /\ rsBones[i].parentId = rsBones[j].id
                    /\ rsBones[j].parentId = rsBones[k].id
                    /\ rsBones[k].parentId = Null
                    /\ IsPlain(rsBones[i]) /\ IsPlain(rsBones[j]) /\ IsPlain(rsBones[k]) )
                  => /\ rsTransforms[rsBones[i].id].x =
                            (rsBones[i].x + rsBones[j].x + rsBones[k].x) * Scale
                     /\ rsTransforms[rsBones[i].id].y =
                            (rsBones[i].y + rsBones[j].y + rsBones[k].y) * Scale

\* C10 witness: a chain of three bones was resolved whose root is rotated and
\* scaled and whose middle bone is rotated, so that the leaf's world position
\* is not the sum of the local positions.
C10_Witness ==
    /\ rsIndex > Len(rsBones)
    /\ \E i, j, k \in 1..Len(rsBones) :
            /\ rsBones[i].parentId = rsBones[j].id
            /\ rsBones[j].parentId = rsBones[k].id
            /\ rsBones[k].parentId = Null
            /\ rsBones[k].rotation = 90 /\ rsBones[k].scaleX = 2
            /\ rsBones[j].rotation = 30
            /\ rsTransforms[rsBones[i].id].x #
                    (rsBones[i].x + rsBones[j].x + rsBones[k].x) * Scale

ResolveDone == rsIndex > Len(rsBones)

TimesComputed(id) == Cardinality({n \in 1..Len(rsComputed) : rsComputed[n] = id})

\* the pass is at a point it can be at on a list of Len(rsBones) bones, no
\* bone's transform has been computed twice, the next resolveBone call (if the
\* pass has not ended) returns having computed at most every bone once and
\* having stored its bone, and at the end the map has exactly one entry per
\* bone id, each computed exactly once
MemoizedPass ==
    /\ rsIndex <= Len(rsBones) + 1
    /\ \A i \in 1..Len(rsBones) : TimesComputed(rsBones[i].id) <= 1
    /\ ~ResolveDone =>
            LET call == resolveBone(rsBones, rsTransforms, rsBones[rsIndex].id)
            IN /\ Len(call.computed) <= Len(rsBones)
               /\ rsBones[rsIndex].id \in DOMAIN call.transforms
    /\ ResolveDone =>
            /\ DOMAIN rsTransforms = BoneIds(rsBones)
            /\ \A i \in 1..Len(rsBones) : TimesComputed(rsBones[i].id) = 1

\* C11: on a forest in any list order resolveSkeleton terminates (every
\* resolveBone call returns and the pass is Len(bones) iterations long); each
\* bone's transform is computed at most once in the pass; the returned map
\* has exactly one entry per bone id; and the bone list is as it was when the
\* function was called.
C11_ResolveTerminatesMemoized == MemoizedPass /\ rsBones = rsInput

\* C11 witness: a pass has ended over a list whose first bone is a child (its
\* parent comes later in the list) and in which one bone has two children.
C11_Witness ==
    /\ ResolveDone
    /\ Len(rsBones) >= 3
    /\ rsBones[1].parentId # Null
    /\ BoneIndex(rsBones, rsBones[1].parentId) > 1
    /\ \E i, j \in 1..Len(rsBones) :
            i # j /\ rsBones[i].parentId # Null /\ rsBones[i].parentId = rsBones[j].parentId

----------------------------------------------------------------------------
(* Properties of the keyframe interpolation engine *)

Evaluated == evPc # "call"

InputTimes == {evInput[i].time : i \in 1..Len(evInput)}
EarliestTime == CHOOSE t \in InputTimes : \A u \in InputTimes : t <= u
LatestTime == CHOOSE t \in InputTimes : \A u \in InputTimes : t >= u

\* C12: evaluateTrackAtTime returns null for an empty list; for a non-empty
\* list in any order and a time at or before the earliest keyframe time it
\* returns a keyframe of the list that has the earliest time, field for field;
\* for a time at or after the latest keyframe time (and after the earliest) it
\* returns a keyframe of the list that has the latest time, field for field.
C12_ClampsToEndKeyframes ==
    Evaluated =>
        IF Len(evInput) = 0 THEN evCall.result = NullResult
        ELSE /\ evCall.result.kind = "value"
             /\ evTime <= EarliestTime =>
                    \E i \in 1..Len(evInput) :
                        evInput[i].time = EarliestTime /\ evCall.result.value = evInput[i]
             /\ evTime >= LatestTime =>
                    \E i \in 1..Len(evInput) :
                        evInput[i].time = LatestTime /\ evCall.result.value = evInput[i]

\* C12 witness: a list given latest-first was evaluated after its latest time
\* and returned its latest keyframe, which is not the last element given.
C12_Witness ==
    /\ Evaluated
    /\ Len(evInput) >= 2
    /\ evInput[1].time = LatestTime
    /\ evInput[Len(evInput)].time < LatestTime
    /\ evTime > LatestTime
    /\ evCall.result.value = evInput[1]

Between == Evaluated /\ Len(evInput) > 0 /\ EarliestTime < evTime /\ evTime < LatestTime

\* the pair the call interpolated (the array is sorted when the loop reads it)
PairK1 == evKeyframes[evCall.pair]
PairK2 == evKeyframes[evCall.pair + 1]

\* C13: for a time strictly between the earliest and latest keyframe times the
\* call interpolates a pair (k1, k2) of keyframes of the list with
\* k1.time <= time < k2.time and no keyframe time strictly between theirs;
\* for every field both define, with k1.easing linear the value v of a
\* position or scale field is the proportional blend
\* (v - k1.f) * (k2.time - k1.time) = (k2.f - k1.f) * (time - k1.time),
\* and with k1.easing step the value is k1's, whatever k2's easing is.
C13_InterpolatesAdjacentPairWithK1Easing ==
    Between =>
        /\ evCall.path = "between"
        /\ evCall.pair \in 1..(Len(evKeyframes) - 1)
        /\ \E i, j \in 1..Len(evInput) : i # j /\ evInput[i] = PairK1 /\ evInput[j] = PairK2
        /\ PairK1.time <= evTime /\ evTime < PairK2.time
        /\ \A t \in InputTimes : ~(PairK1.time < t /\ t < PairK2.time)
        /\ \A f \in PoseFields \cap DOMAIN PairK1 \cap DOMAIN PairK2 :
              /\ f \in DOMAIN evCall.result.value
              /\ (PairK1.easing = "linear" /\ f # "rotation") =>
                    (evCall.result.value[f] - PairK1[f]) * (PairK2.time - PairK1.time)
                        = (PairK2[f] - PairK1[f]) * (evTime - PairK1.time)
              /\ PairK1.easing = "step" => evCall.result.value[f] = PairK1[f]

\* C13 witness: x 0 at time 0 (linear) and x 100 at time 1000 (step) were
\* evaluated at time 500 and gave x 50.
C13_Witness ==
    /\ Between
    /\ evTime = 500
    /\ PairK1.time = 0 /\ PairK1.easing = "linear" /\ PairK1.x = 0
    /\ PairK2.time = 1000 /\ PairK2.easing = "step" /\ PairK2.x = 100
    /\ evCall.result.value.x = 50

RotationBlended ==
    /\ Between
    /\ evCall.path = "between"
    /\ "rotation" \in DOMAIN PairK1 \cap DOMAIN PairK2
    /\ PairK1.easing = "linear"

\* the rotation returned is k1.rotation plus the proportional part of delta
BlendsWith(delta) ==
    (evCall.result.value.rotation - PairK1.rotation) * (PairK2.time - PairK1.time)
        = delta * (evTime - PairK1.time)

\* C14 (as claimed): the delta lerpAngle blends with is congruent to b - a
\* modulo 360 and lies in the half-open interval (-180, 180].
C14_DeltaHalfOpen ==
    RotationBlended =>
        \E delta \in -179..180 :
            /\ (delta - (PairK2.rotation - PairK1.rotation)) % 360 = 0
            /\ BlendsWith(delta)

\* C14 (amended): the delta lerpAngle blends with is congruent to b - a modulo
\* 360 and lies in the closed interval [-180, 180]; it is -180 only when b - a
\* is negative and 180 only when b - a is positive.
C14_DeltaShortestPath ==
    RotationBlended =>
        \E delta \in -180..180 :
            /\ (delta - (PairK2.rotation - PairK1.rotation)) % 360 = 0
            /\ delta = -180 => PairK2.rotation < PairK1.rotation
            /\ delta = 180 => PairK2.rotation > PairK1.rotation
            /\ BlendsWith(delta)

\* C14 witness: rotation 170 to -170 blended half way gave 180.
C14_Witness ==
    /\ RotationBlended
    /\ PairK1.rotation = 170 /\ PairK2.rotation = -170
    /\ 2 * (evTime - PairK1.time) = PairK2.time - PairK1.time
    /\ evCall.result.value.rotation = 180

TrackedBone(bones) == bones[BoneIndex(bones, TrackedBoneId)]

Interpolated == evPc = "done" /\ evCall.path = "between"

DefinedInBoth == PoseFields \cap DOMAIN PairK1 \cap DOMAIN PairK2

\* C15 (as claimed): an interpolated result holds a pose field if and only if
\* both keyframes define it, and setRigTime leaves every other pose field of
\* the bone at its current value.
C15_SparseFieldsKeptBySetRigTime ==
    Interpolated =>
        /\ \A f \in PoseFields : f \in DOMAIN evCall.result.value <=> f \in DefinedInBoth
        /\ \A f \in PoseFields \ DefinedInBoth :
              TrackedBone(evUpdated)[f] = TrackedBone(evBones)[f]

\* C15 (amended): an interpolated result holds exactly the pose fields both
\* keyframes define; the keyframe step of setRigTime leaves every other pose
\* field of the bone at its current value; the IK constraints applied after
\* it leave x, y, scaleX and scaleY as the keyframe step left them and may
\* rewrite rotation; without constraints the bones are as the keyframe step
\* left them.
C15_SparseFieldsKeptByKeyframeStep ==
    Interpolated =>
        /\ DOMAIN evCall.result.value = DefinedInBoth
        /\ \A f \in PoseFields \ DefinedInBoth :
              TrackedBone(evMerged)[f] = TrackedBone(evBones)[f]
        /\ \A f \in PoseFields \ {"rotation"} :
              TrackedBone(evUpdated)[f] = TrackedBone(evMerged)[f]
        /\ evConstraints = <<>> => evUpdated = evMerged

\* C15 witness: neither keyframe of the pair defines every field; x was
\* interpolated and written to the bone, rotation was absent from the result
\* and kept by the keyframe step, then rewritten by an IK constraint.
C15_Witness ==
    /\ Interpolated
    /\ "x" \in DefinedInBoth
    /\ "rotation" \notin DefinedInBoth
    /\ "y" \notin DefinedInBoth
    /\ TrackedBone(evMerged).x # TrackedBone(evBones).x
    /\ TrackedBone(evMerged).rotation = TrackedBone(evBones).rotation
    /\ evConstraints # <<>>
    /\ TrackedBone(evUpdated).rotation # TrackedBone(evBones).rotation

\* C16 (as claimed): after evaluateTrackAtTime the caller's keyframe sequence
\* has the same elements in the same order as before the call, and a second
\* call with the same array and time returns an equal result.
C16_CallerSequenceUntouched ==
    Evaluated =>
        /\ evKeyframes = evInput
        /\ evaluateTrackAtTime(evKeyframes, evTime).result = evCall.result

----------------------------------------------------------------------------
(* Properties of the keyframes kept by the rig store *)

\* the keyframes of the bone's track in the animation, <<>> without a track
KeyframesOf(skels, skeletonId, animationId, boneId) ==
    LET sIdx == SkeletonIndex(skels, skeletonId)
        anims == IF sIdx = 0 THEN <<>> ELSE skels[sIdx].rigAnimations
        found == {a \in 1..Len(anims) : anims[a].id = animationId}
        tracks == IF found = {} THEN <<>> ELSE anims[CHOOSE a \in found : TRUE].tracks
    IN IF TrackIndex(tracks, boneId) = 0 THEN <<>>
       ELSE tracks[TrackIndex(tracks, boneId)].keyframes

\* strictly increasing times, any two more than 1 ms apart
WellSpaced(keyframes) ==
    \A i, j \in 1..Len(keyframes) : i < j => keyframes[j].time - keyframes[i].time > 1

Near(keyframes, time) == {i \in 1..Len(keyframes) : Abs(keyframes[i].time - time) <= 1}
Far(keyframes, time) ==
    LET Away(k) == Abs(k.time - time) > 1
    IN SelectSeq(keyframes, Away)

\* C17: after any sequence of setKeyframe and deleteKeyframe calls on a track
\* that starts empty, the keyframes of every track are in strictly increasing
\* time order and any two of them are more than 1 ms apart; and after
\* setKeyframe at time t the track holds exactly one keyframe within 1 ms of
\* t, the new one (time t, linear, the bone's pose), while the keyframes
\* further than 1 ms from t are those of before the call, in the same order.
C17_KeyframesKeptApart ==
    /\ \A s \in 1..Len(skeletons) :
          \A a \in 1..Len(skeletons[s].rigAnimations) :
             \A t \in 1..Len(skeletons[s].rigAnimations[a].tracks) :
                WellSpaced(skeletons[s].rigAnimations[a].tracks[t].keyframes)
    /\ ( /\ lastOp.op = "setKeyframe"
         /\ BoneIndex(BonesOf(skeletons, lastOp.skeletonId), lastOp.boneId) # 0
         /\ lastOp.arg.animationId \in AnimationIds(lastOp.skeletonId) )
       => LET time == lastOp.arg.time
              bones == BonesOf(skeletons, lastOp.skeletonId)
              bone == bones[BoneIndex(bones, lastOp.boneId)]
              before == KeyframesOf(pastStates[Len(pastStates)].skeletons, lastOp.skeletonId,
                                    lastOp.arg.animationId, lastOp.boneId)
              after == KeyframesOf(skeletons, lastOp.skeletonId,
                                   lastOp.arg.animationId, lastOp.boneId)
          IN /\ Cardinality(Near(after, time)) = 1
             /\ \A i \in Near(after, time) :
                   after[i] = [time |-> time, easing |-> "linear",
                               x |-> bone.x, y |-> bone.y, rotation |-> bone.rotation,
                               scaleX |-> bone.scaleX, scaleY |-> bone.scaleY]
             /\ Far(after, time) = Far(before, time)
             /\ Len(after) = Len(before) - Cardinality(Near(before, time)) + 1

\* C17 witness: the track held keyframes at 0 and 2 ms recorded before the
\* bone was rotated; setKeyframe at 1 ms replaced both by one keyframe with
\* the rotated pose.
C17_Witness ==
    /\ lastOp.op = "setKeyframe"
    /\ lastOp.arg.time = 1
    /\ LET before == KeyframesOf(pastStates[Len(pastStates)].skeletons, lastOp.skeletonId,
                                 lastOp.arg.animationId, lastOp.boneId)
           after == KeyframesOf(skeletons, lastOp.skeletonId,
                                lastOp.arg.animationId, lastOp.boneId)
       IN /\ Len(before) = 2
          /\ before[1].time = 0 /\ before[2].time = 2
          /\ before[1].rotation = 0
          /\ Len(after) = 1
          /\ after[1].time = 1 /\ after[1].rotation = 90

----------------------------------------------------------------------------
(* Properties of buildAutoRigFromFile *)

TooFewPixels == OpaqueCount(maskImage, alphaThreshold) < 100
TooFewRows == PopulatedRows(maskImage) < 10

\* C18: when the mask has fewer than 100 pixels with alpha strictly above the
\* threshold, or fewer than 10 populated bins, the run never gets past
\* buildLayoutFromMask: there is no layout, no bone and no attachment, no
\* result is returned, and once buildLayoutFromMask has run
\* buildAutoRigFromFile has ended with its error.
C18_HardFailure ==
    (TooFewPixels \/ TooFewRows) =>
        /\ maskPc \in {"start", "failed"}
        /\ layoutSegments = <<>>
        /\ autoRigBones = <<>>
        /\ autoRigAttachments = <<>>
        /\ autoRigResult.kind # "result"
        /\ maskPc = "failed" =>
              /\ autoRigResult.kind = "error"
              /\ autoRigResult.message =
                    IF TooFewPixels THEN "Not enough opaque pixels" ELSE "Mask analysis failed"

\* C18 witness: a mask with at least 100 pixels above the threshold, found in
\* fewer than 10 bins, has been refused.
C18_Witness ==
    /\ maskPc = "failed"
    /\ ~TooFewPixels
    /\ TooFewRows
    /\ maskImage.alpha = 25 /\ alphaThreshold = 24
    /\ autoRigResult = [kind |-> "error", message |-> "Mask analysis failed"]

\* C19 (as claimed): when attachment generation was requested and at least
\* one attachment was skipped for lack of opaque pixels, the result holds all
\* 11 bones, no error was raised, and the warnings list holds a warning about
\* the skipped attachment.
C19_SkippedAttachmentWarned ==
    (maskPc = "done" /\ generateOption /\ emptyPieces # {}) =>
        /\ autoRigResult.kind = "result"
        /\ Len(autoRigResult.bones) = 11
        /\ \E i \in 1..Len(autoRigResult.warnings) :
              autoRigResult.warnings[i] = NoSlicesWarning

LaidOut == maskPc \notin {"start", "failed"}

SegmentKeys == {Segments[i].key : i \in 1..Len(Segments)}

\* the segment is at least `bound` long (an extended end lies at distance
\* minLength from the start)
SegmentAtLeast(segment, bound) ==
    IF segment.extended THEN segment.minLength >= bound
    ELSE DistAtLeast(segment.start, segment.end, bound)

\* 3.5% of the body height, in 1/Scale pixel
ClaimedMinimum == 35 * BodyHeight(maskImage)

\* C20 (as claimed): every one of the 11 segments of the layout is at least
\* 3.5% of the body height long.
C20_EverySegmentAtLeastClaimed ==
    LaidOut => \A key \in SegmentKeys : SegmentAtLeast(layoutGeometry[key], ClaimedMinimum)

\* the minimum the code asks for: minBoneLength = max(8 px, 3.5% of the body
\* height), times 0.6 for spine and 0.8 for head
CodeMinimum(key) ==
    LET minBoneLength == Max(8 * Scale, ClaimedMinimum)
    IN IF key = "spine" THEN (minBoneLength * 6) \div 10
       ELSE IF key = "head" THEN (minBoneLength * 8) \div 10
       ELSE minBoneLength

\* C20 (amended): with minBoneLength = max(8 px, 3.5% of the body height),
\* root and the eight arm and leg segments are at least minBoneLength long
\* (hence at least 3.5% of the body height), spine is at least 0.6 and head at
\* least 0.8 of minBoneLength, and a shorter derived segment is extended to
\* exactly its minimum.
C20_SegmentMinimums ==
    LaidOut =>
        \A key \in SegmentKeys :
            /\ SegmentAtLeast(layoutGeometry[key], CodeMinimum(key))
            /\ layoutGeometry[key].minLength = CodeMinimum(key)
            /\ key \notin {"spine", "head"} =>
                  SegmentAtLeast(layoutGeometry[key], ClaimedMinimum)

\* C20 witness: on a body more than 183 px high the derived spine and head
\* were shorter than their minimums and were extended to 0.6 and 0.8 of
\* minBoneLength, both below 3.5% of the body height, and a lower arm was
\* extended to minBoneLength.
C20_Witness ==
    /\ LaidOut
    /\ BodyHeight(maskImage) > 183
    /\ layoutGeometry.spine.extended
    /\ layoutGeometry.spine.minLength < ClaimedMinimum
    /\ layoutGeometry.head.extended
    /\ layoutGeometry.head.minLength < ClaimedMinimum
    /\ layoutGeometry.lower_arm_l.extended
    /\ layoutGeometry.lower_arm_l.minLength >= ClaimedMinimum

----------------------------------------------------------------------------
(* Properties of removeBone *)

\* the store data the last tracked call started from
DataBefore == pastStates[Len(pastStates)]

\* the skeleton list the last tracked call started from
SkeletonsBefore == DataBefore.skeletons

RemovedIds == SelfOrDescendants(BonesOf(SkeletonsBefore, lastOp.skeletonId), {lastOp.boneId})

\* C21: removeBone(skeletonId, boneId) on a forest-shaped skeleton removes
\* exactly the bone and all of its transitive descendants: the bones left are
\* the bones outside that subtree, in their order and with every field as
\* before, none of them has a removed bone as parentId, and every other
\* skeleton is as it was.
C21_RemoveBoneCascades ==
    (lastOp.op = "removeBone" /\ IsForest(BonesOf(SkeletonsBefore, lastOp.skeletonId))) =>
        LET before == BonesOf(SkeletonsBefore, lastOp.skeletonId)
            after == BonesOf(skeletons, lastOp.skeletonId)
            Outside(b) == b.id \notin RemovedIds
        IN /\ after = SelectSeq(before, Outside)
           /\ \A i \in 1..Len(after) : after[i].parentId \notin RemovedIds
           /\ Len(skeletons) = Len(SkeletonsBefore)
           /\ \A i \in 1..Len(skeletons) :
                 skeletons[i].id # lastOp.skeletonId => skeletons[i] = SkeletonsBefore[i]

\* C21 witness: removeBone took a bone, its child and its grandchild out of a
\* forest-shaped skeleton.
C21_Witness ==
    /\ lastOp.op = "removeBone"
    /\ LET before == BonesOf(SkeletonsBefore, lastOp.skeletonId)
       IN /\ IsForest(before)
          /\ \E i, j \in 1..Len(before) :
                /\ before[i].parentId = lastOp.boneId
                /\ before[j].parentId = before[i].id
                /\ before[j].id \notin BoneIds(BonesOf(skeletons, lastOp.skeletonId))

\* every bone reference of the data names a bone: selectedBoneId a bone of
\* some skeleton (or null), the targetBoneId of every IK constraint and the
\* boneId of every animation track a bone of their skeleton
ReferencesIntact(data) ==
    /\ \/ data.selectedBoneId = Null
       \/ \E i \in 1..Len(data.skeletons) :
             data.selectedBoneId \in BoneIds(data.skeletons[i].bones)
    /\ \A i \in 1..Len(data.skeletons) :
          LET s == data.skeletons[i]
          IN /\ \A c \in 1..Len(s.ikConstraints) :
                   s.ikConstraints[c].targetBoneId \in BoneIds(s.bones)
             /\ \A a \in 1..Len(s.rigAnimations) :
                   \A k \in 1..Len(s.rigAnimations[a].tracks) :
                      s.rigAnimations[a].tracks[k].boneId \in BoneIds(s.bones)

\* C27 (as claimed): if every bone reference named an existing bone before
\* removeBone, every bone reference names an existing bone or is null after it.
C27_ReferencesSurviveRemoval ==
    (lastOp.op = "removeBone" /\ ReferencesIntact(DataBefore)) => ReferencesIntact(Snapshot)

----------------------------------------------------------------------------
(* Properties of setRigTime *)

\* the last call was a setRigTime that found the selected skeleton and animation
Posed ==
    /\ lastOp.op = "setRigTime"
    /\ SkeletonIndex(DataBefore.skeletons, DataBefore.selectedSkeletonId) # 0
    /\ AnimationIndex(
          DataBefore.skeletons[SkeletonIndex(DataBefore.skeletons,
                                             DataBefore.selectedSkeletonId)].rigAnimations,
          DataBefore.selectedRigAnimationId) # 0

SkeletonPosed ==
    DataBefore.skeletons[SkeletonIndex(DataBefore.skeletons, DataBefore.selectedSkeletonId)]

AnimationPosed ==
    SkeletonPosed.rigAnimations[AnimationIndex(SkeletonPosed.rigAnimations,
                                               DataBefore.selectedRigAnimationId)]

TimePosed ==
    IF lastOp.arg < 0 THEN 0
    ELSE IF lastOp.arg > AnimationPosed.duration THEN AnimationPosed.duration
    ELSE lastOp.arg

BonesStored == BonesOf(skeletons, DataBefore.selectedSkeletonId)

\* the keyframes of the track of a bone, <<>> without a track
TrackKeyframes(tracks, boneId) ==
    IF TrackIndex(tracks, boneId) = 0 THEN <<>>
    ELSE tracks[TrackIndex(tracks, boneId)].keyframes

\* the bone with every field of the value of its track at the time written in
Written(bone, tracks, time) ==
    LET keyframes == TrackKeyframes(tracks, bone.id)
        value == evaluateTrackAtTime(keyframes, time).result.value
    IN IF Len(keyframes) = 0 THEN bone
       ELSE [f \in DOMAIN bone \cup DOMAIN value |->
                IF f \in DOMAIN value THEN value[f] ELSE bone[f]]

InterpolatedBones ==
    [i \in 1..Len(SkeletonPosed.bones) |->
        Written(SkeletonPosed.bones[i], AnimationPosed.tracks, TimePosed)]

\* constraint d moves the rotation of the bone: the bone is its target or the
\* parent of its target
Touches(bones, d, boneId) ==
    \/ d.targetBoneId = boneId
    \/ /\ BoneIndex(bones, d.targetBoneId) # 0
       /\ bones[BoneIndex(bones, d.targetBoneId)].parentId = boneId

\* the rotation solve2BoneIK gives the target bone of constraint number k
SolvedRotation(k) ==
    LET constraints == SkeletonPosed.ikConstraints
        c == constraints[k]
        input == NestedApply(InterpolatedBones, constraints, k - 1)
        childBone == input[BoneIndex(input, c.targetBoneId)]
        parentBone == input[BoneIndex(input, childBone.parentId)]
        origin == IKOrigin(input, c)
    IN solve2BoneIK(parentBone.length, childBone.length, c.targetX, c.targetY,
                    origin.x, origin.y, c.bendPositive).childRotation

\* constraint number k is enabled with mix = 1, is solved, its target bone has
\* a track with keyframes, and no later constraint moves that bone
SolvedOverTrack(k) ==
    LET constraints == SkeletonPosed.ikConstraints
        c == constraints[k]
    IN /\ c.enabled
       /\ c.mix = Scale
       /\ IKOutcome(NestedApply(InterpolatedBones, constraints, k - 1), c) = "solve"
       /\ Len(TrackKeyframes(AnimationPosed.tracks, c.targetBoneId)) > 0
       /\ \A j \in (k + 1)..Len(constraints) :
             ~Touches(InterpolatedBones, constraints[j], c.targetBoneId)

\* C22: setRigTime first writes the keyframe values of the clamped time into
\* every bone that has a track, then applies the IK constraints in list order
\* to that bone list, and stores the result: the target bone of an enabled,
\* solved constraint with mix = 1 is stored with the rotation the solver gave,
\* whatever its track says.
C22_KeyframesThenIK ==
    Posed =>
        /\ currentTime = TimePosed
        /\ BonesStored = NestedApply(InterpolatedBones, SkeletonPosed.ikConstraints,
                                     Len(SkeletonPosed.ikConstraints))
        /\ \A k \in 1..Len(SkeletonPosed.ikConstraints) :
              SolvedOverTrack(k) =>
                 BonesStored[BoneIndex(BonesStored,
                                       SkeletonPosed.ikConstraints[k].targetBoneId)].rotation
                    = SolvedRotation(k)

\* C22 witness: setRigTime ran on a bone that has a track and a solved
\* constraint with mix = 1, and the rotation stored differs from the one the
\* track gives.
C22_Witness ==
    /\ Posed
    /\ \E k \in 1..Len(SkeletonPosed.ikConstraints) :
          /\ SolvedOverTrack(k)
          /\ LET id == SkeletonPosed.ikConstraints[k].targetBoneId
             IN BonesStored[BoneIndex(BonesStored, id)].rotation
                   # InterpolatedBones[BoneIndex(InterpolatedBones, id)].rotation

\* C26 (as claimed): with a skeleton and a rig animation selected, a second
\* setRigTime(t) right after setRigTime(t) leaves every bone as the first call
\* left it, whatever the tracks and the IK constraints (0 < mix < 1 included).
C26_SetRigTimeIdempotent ==
    [][ ( /\ Posed
          /\ steps' = steps + 1
          /\ lastOp'.op = "setRigTime"
          /\ lastOp'.arg = lastOp.arg )
        => BonesOf(skeletons', selectedSkeletonId) = BonesOf(skeletons, selectedSkeletonId) ]_vars

----------------------------------------------------------------------------
(* Properties of withHistory *)

\* the data of the store when it is created
InitialData ==
    [skeletons |-> <<>>, selectedSkeletonId |-> Null, selectedBoneId |-> Null,
     selectedIKConstraintId |-> Null, selectedRigAnimationId |-> Null, currentTime |-> 0]

\* a store action other than undo and redo has called set
TrackedStep ==
    /\ steps' = steps + 1
    /\ lastOp'.op \notin {"undo", "redo"}
    /\ pastStates' # pastStates

UndoStep == steps' = steps + 1 /\ lastOp'.op = "undo" /\ Len(pastStates) > 0
RedoStep == steps' = steps + 1 /\ lastOp'.op = "redo" /\ Len(futureStates) > 0

C29_UndoStackWithinLimit ==
    /\ Len(pastStates) <= historyLimit
    /\ Len(pastStates) + Len(futureStates) <= historyLimit

\* C29 witness: redo has pushed onto an undo stack that had been trimmed,
\* filling it to the limit again.
C29_Witness ==
    /\ lastOp.op = "redo"
    /\ historyLimit > 0
    /\ Len(pastStates) = historyLimit
    /\ pastStates[1] # InitialData

\* C30: canUndo is true exactly when the undo stack is non-empty and canRedo
\* exactly when the redo stack is non-empty; a state change that is not an
\* undo or a redo leaves the redo stack empty; undo on an empty undo stack and
\* redo on an empty redo stack change nothing.
C30_FlagsMatchStacks ==
    [][ /\ canUndo' = (Len(pastStates') > 0)
        /\ canRedo' = (Len(futureStates') > 0)
        /\ (steps' = steps + 1 /\ lastOp'.op \notin {"undo", "redo"}
                /\ Snapshot' # Snapshot) => futureStates' = <<>>
        /\ (steps' = steps + 1 /\ lastOp'.op = "undo" /\ Len(pastStates) = 0) =>
                UNCHANGED <<Snapshot, canUndo, canRedo, pastStates, futureStates>>
        /\ (steps' = steps + 1 /\ lastOp'.op = "redo" /\ Len(futureStates) = 0) =>
                UNCHANGED <<Snapshot, canUndo, canRedo, pastStates, futureStates>> ]_vars

\* C30 witness: createSkeleton, undo, createSkeleton: the second skeleton was
\* created after the first was undone, and the redo stack that held the
\* undone state is empty.
C30_Witness ==
    /\ lastOp.op = "createSkeleton"
    /\ steps = 3
    /\ Len(skeletons) = 1
    /\ skeletons[1].id = 2
    /\ canUndo
    /\ ~canRedo
    /\ futureStates = <<>>

----------------------------------------------------------------------------
(* Properties of PlaybackEngine *)

\* a pending callback runs tick while the engine plays
TickStep == engine.isPlaying /\ engineOp' = "frame"

\* the tick of this step, in time mode without loop and with the callback of
\* playRig registered, takes currentTime to duration
ReachesDuration ==
    /\ TickStep
    /\ engine.mode = "time"
    /\ engine.timeCallback = TimeCallback
    /\ ~engine.loop
    /\ engine.currentTime + (now - engine.lastTime) >= engine.duration

\* the tick that reaches duration stops the engine and requests no frame
StopsAtDuration ==
    [][ReachesDuration =>
          /\ ~engine'.isPlaying
          /\ engine'.animationId = Null
          /\ engine'.currentTime = engine.duration
          /\ nextHandle' = nextHandle]_vars

\* C24: in time mode with loop = false, the tick that takes the playback time
\* to the duration stops the engine, requests no further animation frame, and
\* invokes the time callback once more, with the duration
C24_FinalTimeCallback ==
    [][ReachesDuration =>
          /\ ~engine'.isPlaying
          /\ engine'.animationId = Null
          /\ nextHandle' = nextHandle
          /\ calls' = << [kind |-> "time", value |-> engine.duration] >>]_vars

\* a pending callback runs tick while the engine plays in frame mode
FrameTickStep == TickStep /\ engine.mode = "frame"

\* the index delivered before calls'[i]: the previous call of the same tick, or
\* the frame the engine was on when the tick began
IndexBefore(i) == IF i = 1 THEN engine.currentFrame ELSE calls'[i - 1].value

\* the iterations the while loop of this tick has time for
FramesDue == (engine.accumulator + (now - engine.lastTime)) \div frameInterval(engine)

\* C25: in frame mode, after configure with frameCount >= 1 and
\* 0 <= startFrame < frameCount (the only configure calls of SpecPlayback),
\* every index handed to the frame callback is within 0..frameCount - 1; with
\* loop the index delivered after frameCount - 1 is 0; without loop the tick
\* that runs past the last frame stops the engine on frameCount - 1, and a
\* tick of a stopped engine delivers nothing
C25_FrameIndicesInRange ==
    [][/\ \A i \in 1..Len(calls') :
              calls'[i].kind = "frame" => calls'[i].value \in 0..(engine'.frameCount - 1)
       /\ (FrameTickStep /\ engine.loop) =>
              \A i \in 1..Len(calls') :
                  IndexBefore(i) = engine.frameCount - 1 => calls'[i].value = 0
       /\ (FrameTickStep /\ ~engine.loop
              /\ engine.currentFrame + FramesDue >= engine.frameCount) =>
              /\ ~engine'.isPlaying
              /\ engine'.currentFrame = engine.frameCount - 1
              /\ engine'.frameCallback = NoCallback
              /\ nextHandle' = nextHandle
       /\ (~engine.isPlaying /\ engineOp' = "frame") => calls' = <<>>]_vars

\* a tick of a looping two-frame animation has delivered frame 1 and then frame 0
C25_Witness ==
    /\ engineOp = "frame"
    /\ engine.mode = "frame"
    /\ engine.loop
    /\ engine.frameCount = 2
    /\ Len(calls) >= 2
    /\ calls[1] = [kind |-> "frame", value |-> 1]
    /\ calls[2] = [kind |-> "frame", value |-> 0]

\* a tick without loop has run past the last frame and stopped the engine
FrameStopReached ==
    /\ engineOp = "frame"
    /\ engine.mode = "frame"
    /\ ~engine.loop
    /\ ~engine.isPlaying
    /\ engine.frameCount = 2
    /\ engine.currentFrame = 1
    /\ calls = << [kind |-> "frame", value |-> 1] >>

\* C28: for any interleaving of configure, configureRig, play, playRig, stop
\* and animation-frame callbacks on one engine, at most one animation-frame
\* callback is pending, it is the one animationId names, and stop leaves none
C28_OnePendingCallback ==
    /\ Cardinality(scheduled) <= 1
    /\ scheduled \subseteq {engine.animationId}
    /\ engineOp = "stop" => scheduled = {}

\* from a state with at most the callback animationId names pending, only play
\* or playRig on an engine that already plays leads to a second one
OnlyReplayAddsCallbacks ==
    [][(/\ scheduled \subseteq {engine.animationId}
        /\ (~engine.isPlaying \/ engineOp' \notin {"play", "playRig"})) =>
          scheduled' \subseteq {engine'.animationId}]_vars

====
